---------------------------- MODULE Spec2Model ----------------------------
(***************************************************************************)
(* capa-annotator: the MachineDeployment reconciler (pkg/controller), the  *)
(* region resolver (pkg/utils) and the per-region EC2 instance-type cache  *)
(* behind Reconciler.InstanceTypesCache.                                   *)
(*                                                                         *)
(* Twelve specifications share the definitions:                            *)
(*   SpecCache   workers calling GetInstanceType again and again, a clock  *)
(*               and a paginated DescribeInstanceTypes API that may fail;  *)
(*   SpecFlight  every worker has called GetInstanceType for one region    *)
(*               at time 0, before any snapshot of it exists;              *)
(*   SpecRegion  ResolveRegion run on a MachineDeployment and an object    *)
(*               store drawn from a bounded set;                           *)
(*   SpecWriter  the annotation step of reconcile run repeatedly on a      *)
(*               MachineDeployment whose labels annotation and instance    *)
(*               type are drawn from bounded sets;                         *)
(*   SpecSession newAWSSession run in two process environments that agree  *)
(*               on which variables are set;                               *)
(*   Spec        Reconcile called again and again, one call at a time, on  *)
(*               a MachineDeployment, an object store and AWS answers      *)
(*               drawn from bounded sets, with a clock;                    *)
(*   SpecDirectory  validators of two credential identities calling        *)
(*               GetCachedDescribeRegions again and again under the        *)
(*               one mutex of the region directory cache, with a clock;    *)
(*   SpecDirectoryFlight  every validator waits for that mutex while       *)
(*               the directory of its identity is absent or expired;       *)
(*   SpecValidate  validateRegion run on a region and a directory drawn    *)
(*               from bounded sets;                                        *)
(*   SpecFetch   one bulk fetch of the instance-type cache, running to     *)
(*               its end under fairness of its own steps;                  *)
(*   SpecRefs    ResolveAWSMachineTemplate and ResolveRegion run on        *)
(*               references that name a namespace or leave it empty;       *)
(*   SpecClient  NewValidatedClient run on a region, a region cache and    *)
(*               answers of AWS drawn from bounded sets.                   *)
(***************************************************************************)
EXTENDS Integers, Sequences, FiniteSets, TLC

VARIABLES
    now,            \* wall clock, in minutes
    instanceTypes,  \* region -> published snapshot, or NoSnapshot
    refreshLock,    \* region -> worker holding the refresh mutex, or NoWorker
    pc,             \* worker -> "idle" | "wait" | "fetching" | "done"
    req,            \* worker -> the call's arguments
    fetch,          \* worker -> the bulk fetch in progress (token, accumulator)
    result,         \* worker -> what GetInstanceType returned
    path,           \* worker -> how the call was answered
    seen,           \* worker -> the snapshot the answer was read from
    md,             \* the MachineDeployment being reconciled
    world,          \* what the Kubernetes API holds and which Gets fail
    rr,             \* what the resolver returned, or Pending
    regionCache,    \* regionCache.data: AccessKeyID -> DescribeRegionsData
    rec,            \* what the last Reconcile did and returned, or Pending
    wr,             \* the annotation step: its descriptor and its runs so far
    ses,            \* newAWSSession: the environments and what it returned
    rv              \* the region validators: where each is, the mutex, what was returned

cacheVars == <<now, instanceTypes, refreshLock, pc, req, fetch, result, path, seen>>
k8sVars == <<md, world, rr, regionCache, rec, wr, ses, rv>>

---------------------------------------------------------------------------
(* Bounds *)

NumWorkers == 2
MaxTicks == 3

(* Program constants *)

\* "Caches the instance type information for 24 hours", in minutes
refreshInterval == 1440
\* time.Minute * 30
awsRegionsCacheExpirationDuration == 30

Tick == refreshInterval \div 2
MaxTime == MaxTicks * Tick

Workers == 1..NumWorkers
\* The region the concurrent callers share.
CacheRegions == {"us-east-1"}

NoSnapshot == [none |-> TRUE]
NoWorker == 0
NoFetch == [none |-> TRUE]
NoRequest == [none |-> TRUE]
NoResult == [kind |-> "none"]

\* No MachineDeployment is being looked at.
Pending == [pending |-> TRUE]
K8sParked ==
    /\ md = Pending
    /\ world = Pending
    /\ rr = Pending
    /\ regionCache = Pending
    /\ rec = Pending
    /\ wr = Pending
    /\ ses = Pending
    /\ rv = Pending

---------------------------------------------------------------------------
(* The EC2 API: DescribeInstanceTypes answers *)

\* The response of the fake AWS client: one page, no NextToken.
FakeInstanceTypes ==
    << << [InstanceType |-> "a1.2xlarge", SizeInMiB |-> 16384, DefaultVCpus |-> 8,
           Gpus |-> <<>>, SupportedArchitectures |-> <<"amd64">>],
          [InstanceType |-> "p2.16xlarge", SizeInMiB |-> 749568, DefaultVCpus |-> 64,
           Gpus |-> <<16>>, SupportedArchitectures |-> <<"amd64">>],
          [InstanceType |-> "m6g.4xlarge", SizeInMiB |-> 65536, DefaultVCpus |-> 16,
           Gpus |-> <<>>, SupportedArchitectures |-> <<"arm64">>],
          [InstanceType |-> "m6i.8xlarge", SizeInMiB |-> 131072, DefaultVCpus |-> 32,
           Gpus |-> <<>>, SupportedArchitectures |-> <<>>],
          [InstanceType |-> "m6h.8xlarge", SizeInMiB |-> 131072, DefaultVCpus |-> 32,
           Gpus |-> <<>>, SupportedArchitectures |-> <<"wrong-arch">>] >> >>

\* A later answer of the API, in two pages: p2.16xlarge is gone, a1.2xlarge
\* has changed, a GPU type with two device groups has appeared.
PagedInstanceTypes ==
    << << [InstanceType |-> "a1.2xlarge", SizeInMiB |-> 32768, DefaultVCpus |-> 8,
           Gpus |-> <<>>, SupportedArchitectures |-> <<"x86_64">>],
          [InstanceType |-> "m6g.4xlarge", SizeInMiB |-> 65536, DefaultVCpus |-> 16,
           Gpus |-> <<>>, SupportedArchitectures |-> <<"arm64", "x86_64">>] >>,
       << [InstanceType |-> "g5.48xlarge", SizeInMiB |-> 786432, DefaultVCpus |-> 192,
           Gpus |-> <<4, 4>>, SupportedArchitectures |-> <<"x86_64">>] >> >>

Catalogs == {FakeInstanceTypes, PagedInstanceTypes}

\* The names the workers ask for.
QueryNames == {"a1.2xlarge", "p2.16xlarge", "g5.48xlarge"}

\* DescribeInstanceTypes(NextToken = token) on an API serving `cat`:
\* one page and the continuation token, 0 when the listing is complete.
DescribeInstanceTypes(cat, token) ==
    [InstanceTypes |-> cat[token],
     NextToken |-> IF token < Len(cat) THEN token + 1 ELSE 0]

---------------------------------------------------------------------------
(* The instance-type cache *)

RECURSIVE SumSeq(_)
SumSeq(s) == IF s = <<>> THEN 0 ELSE Head(s) + SumSeq(Tail(s))

\* Mutation: an identifier that is not x86_64 is passed on as it is.
normalizeArchitecture_PassThrough(architecture) ==
    IF architecture = "x86_64" THEN "amd64" ELSE architecture

\* ec2.ArchitectureTypeX8664 -> amd64, ec2.ArchitectureTypeArm64 -> arm64,
\* anything else -> amd64.
normalizeArchitecture(architecture) ==
    IF architecture = "x86_64" THEN "amd64"
    ELSE IF architecture = "arm64" THEN "arm64"
    ELSE "amd64"

\* One ec2.InstanceTypeInfo as the cache keeps it.
InstanceType(info) ==
    [VCPU |-> info.DefaultVCpus,
     MemoryMb |-> info.SizeInMiB,
     GPU |-> SumSeq(info.Gpus),
     CPUArchitecture |->
        IF info.SupportedArchitectures = <<>> THEN "amd64"
        ELSE normalizeArchitecture(info.SupportedArchitectures[1])]

RECURSIVE AddPage(_, _)
\* acc with the page's instance types added, converted one by one.
AddPage(acc, page) ==
    IF page = <<>> THEN acc
    ELSE LET info == Head(page)
             one == [n \in {info.InstanceType} |-> InstanceType(info)]
             rest == [n \in DOMAIN acc \ {info.InstanceType} |-> acc[n]]
         IN AddPage(one @@ rest, Tail(page))

EmptyEntries == [n \in {} |-> NoResult]

\* Mutation: each page replaces what the earlier pages gave.
Accumulate_LastPageOnly(acc, page) == AddPage(EmptyEntries, page)

\* The loop's accumulator after one more page.
Accumulate(acc, page) == AddPage(acc, page)

\* Mutation: the loop ignores the continuation token.
MorePages_FirstPageOnly(out) == FALSE

\* Whether the loop goes on to the next page.
MorePages(out) == out.NextToken # 0

\* Answer from a published snapshot.
Lookup(snapshot, typeName) ==
    IF typeName \in DOMAIN snapshot.entries
    THEN [kind |-> "ok", instanceType |-> snapshot.entries[typeName]]
    ELSE [kind |-> "unknown"]

HasSnapshot(region) == instanceTypes[region] # NoSnapshot

\* Mutation: a snapshot never expires.
Expired_Never(fetchedAt, t) == FALSE

\* An entry older than the refresh interval is stale.
Expired(fetchedAt, t) == t - fetchedAt > refreshInterval

\* Mutation: the decision ignores what is already published.
cacheNeedsRefresh_Always(region) == TRUE

cacheNeedsRefresh(region) ==
    \/ ~HasSnapshot(region)
    \/ Expired(instanceTypes[region].fetchedAt, now)

\* Mutation: a refresh adds to what the region's snapshot already holds.
InitialEntries_FromSnapshot(region) ==
    IF HasSnapshot(region) THEN instanceTypes[region].entries ELSE EmptyEntries

\* The set a bulk fetch starts to fill: empty, whatever is published.
InitialEntries(region) == EmptyEntries

\* GetInstanceType is called: a fresh snapshot is read without the refresh
\* mutex, anything else queues for it.
Call(w, region, typeName) ==
    /\ pc[w] \in {"idle", "done"}
    /\ req' = [req EXCEPT ![w] = [region |-> region, typeName |-> typeName]]
    /\ IF cacheNeedsRefresh(region)
       THEN /\ pc' = [pc EXCEPT ![w] = "wait"]
            /\ result' = [result EXCEPT ![w] = NoResult]
            /\ path' = [path EXCEPT ![w] = "none"]
            /\ seen' = [seen EXCEPT ![w] = NoSnapshot]
       ELSE /\ pc' = [pc EXCEPT ![w] = "done"]
            /\ result' = [result EXCEPT ![w] = Lookup(instanceTypes[region], typeName)]
            /\ path' = [path EXCEPT ![w] = "hit"]
            /\ seen' = [seen EXCEPT ![w] = instanceTypes[region]]
    /\ UNCHANGED <<now, instanceTypes, refreshLock, fetch>>
    /\ UNCHANGED k8sVars

\* The caller takes the region's refresh mutex and decides under it whether
\* a refresh is (still) needed.
Acquire(w) ==
    /\ pc[w] = "wait"
    /\ refreshLock[req[w].region] = NoWorker
    /\ IF cacheNeedsRefresh(req[w].region)
       THEN /\ \E cat \in Catalogs :
                 fetch' = [fetch EXCEPT ![w] =
                             [cat |-> cat, token |-> 1,
                              acc |-> InitialEntries(req[w].region)]]
            /\ refreshLock' = [refreshLock EXCEPT ![req[w].region] = w]
            /\ pc' = [pc EXCEPT ![w] = "fetching"]
            /\ UNCHANGED <<result, path, seen>>
       ELSE /\ pc' = [pc EXCEPT ![w] = "done"]
            /\ result' = [result EXCEPT ![w] =
                            Lookup(instanceTypes[req[w].region], req[w].typeName)]
            /\ path' = [path EXCEPT ![w] = "waited"]
            /\ seen' = [seen EXCEPT ![w] = instanceTypes[req[w].region]]
            /\ UNCHANGED <<refreshLock, fetch>>
    /\ UNCHANGED <<now, instanceTypes, req>>
    /\ UNCHANGED k8sVars

\* One DescribeInstanceTypes call of the pagination loop succeeds; after the
\* last page the accumulated set replaces the region's snapshot.
FetchPage(w) ==
    /\ pc[w] = "fetching"
    /\ LET region == req[w].region
           out == DescribeInstanceTypes(fetch[w].cat, fetch[w].token)
           acc == Accumulate(fetch[w].acc, out.InstanceTypes)
           snapshot == [entries |-> acc, fetchedAt |-> now, cat |-> fetch[w].cat]
       IN IF MorePages(out)
          THEN /\ fetch' = [fetch EXCEPT ![w] =
                              [cat |-> fetch[w].cat, token |-> out.NextToken, acc |-> acc]]
               /\ UNCHANGED <<instanceTypes, refreshLock, pc, result, path, seen>>
          ELSE /\ instanceTypes' = [instanceTypes EXCEPT ![region] = snapshot]
               /\ refreshLock' = [refreshLock EXCEPT ![region] = NoWorker]
               /\ fetch' = [fetch EXCEPT ![w] = NoFetch]
               /\ pc' = [pc EXCEPT ![w] = "done"]
               /\ result' = [result EXCEPT ![w] = Lookup(snapshot, req[w].typeName)]
               /\ path' = [path EXCEPT ![w] = "refreshed"]
               /\ seen' = [seen EXCEPT ![w] = snapshot]
    /\ UNCHANGED <<now, req>>
    /\ UNCHANGED k8sVars

\* Mutation: a failed fetch is always reported, prior snapshot or not.
AfterFailedFetch_AlwaysError(region, typeName) == [kind |-> "fetchError"]

\* What the caller gets when its bulk fetch failed.
AfterFailedFetch(region, typeName) ==
    IF HasSnapshot(region)
    THEN Lookup(instanceTypes[region], typeName)
    ELSE [kind |-> "fetchError"]

\* A DescribeInstanceTypes call fails or is cancelled: the pages gathered so
\* far are dropped and the last good snapshot, if any, keeps answering.
FetchFail(w) ==
    /\ pc[w] = "fetching"
    /\ refreshLock' = [refreshLock EXCEPT ![req[w].region] = NoWorker]
    /\ fetch' = [fetch EXCEPT ![w] = NoFetch]
    /\ pc' = [pc EXCEPT ![w] = "done"]
    /\ result' = [result EXCEPT ![w] = AfterFailedFetch(req[w].region, req[w].typeName)]
    /\ path' = [path EXCEPT ![w] =
                  IF HasSnapshot(req[w].region) THEN "stale" ELSE "error"]
    /\ seen' = [seen EXCEPT ![w] = instanceTypes[req[w].region]]
    /\ UNCHANGED <<now, instanceTypes, req>>
    /\ UNCHANGED k8sVars

Advance ==
    /\ now < MaxTime
    /\ now' = now + Tick
    /\ UNCHANGED <<instanceTypes, refreshLock, pc, req, fetch, result, path, seen>>
    /\ UNCHANGED k8sVars

\* NewInstanceTypesCache(): no region has a snapshot, nobody is calling.
CacheFresh(regions) ==
    /\ now = 0
    /\ instanceTypes = [r \in regions |-> NoSnapshot]
    /\ refreshLock = [r \in regions |-> NoWorker]
    /\ pc = [w \in Workers |-> "idle"]
    /\ req = [w \in Workers |-> NoRequest]
    /\ fetch = [w \in Workers |-> NoFetch]
    /\ result = [w \in Workers |-> NoResult]
    /\ path = [w \in Workers |-> "none"]
    /\ seen = [w \in Workers |-> NoSnapshot]

CacheInit ==
    /\ now = 0
    /\ instanceTypes = [r \in CacheRegions |-> NoSnapshot]
    /\ refreshLock = [r \in CacheRegions |-> NoWorker]
    /\ pc = [w \in Workers |-> "idle"]
    /\ req = [w \in Workers |-> NoRequest]
    /\ fetch = [w \in Workers |-> NoFetch]
    /\ result = [w \in Workers |-> NoResult]
    /\ path = [w \in Workers |-> "none"]
    /\ seen = [w \in Workers |-> NoSnapshot]
    /\ K8sParked

CacheNext ==
    \/ \E w \in Workers, region \in CacheRegions, typeName \in QueryNames :
          Call(w, region, typeName)
    \/ \E w \in Workers : Acquire(w)
    \/ \E w \in Workers : FetchPage(w)
    \/ \E w \in Workers : FetchFail(w)
    \/ Advance

vars == <<cacheVars, k8sVars>>

SpecCache == CacheInit /\ [][CacheNext]_vars

\* Every worker is inside GetInstanceType for the same region, none has taken
\* the refresh mutex yet, and the region has no snapshot.
FlightInit ==
    /\ now = 0
    /\ instanceTypes = [r \in CacheRegions |-> NoSnapshot]
    /\ refreshLock = [r \in CacheRegions |-> NoWorker]
    /\ pc = [w \in Workers |-> "wait"]
    /\ \E region \in CacheRegions :
          req \in [Workers -> [region : {region}, typeName : QueryNames]]
    /\ fetch = [w \in Workers |-> NoFetch]
    /\ result = [w \in Workers |-> NoResult]
    /\ path = [w \in Workers |-> "none"]
    /\ seen = [w \in Workers |-> NoSnapshot]
    /\ K8sParked

FlightNext ==
    \/ \E w \in Workers : Acquire(w)
    \/ \E w \in Workers : FetchPage(w)
    \/ \E w \in Workers : FetchFail(w)
    \/ Advance

SpecFlight == FlightInit /\ [][FlightNext]_vars

---------------------------------------------------------------------------
(* The Kubernetes objects and the region resolver (pkg/utils) *)

RegionAnnotation == "capa.infrastructure.cluster.x-k8s.io/region"

\* error values: what failed, and what errors.Is / apierrors.IsNotFound
\* still recognise through the %w wrapping
Nil == [what |-> "nil", is |-> "nil"]
Err(what, is) == [what |-> what, is |-> is]

NilRef == [nil |-> TRUE]

\* client.Client.Get(ctx, key, obj)
Get(w, kind, namespace, name) ==
    LET found == {o \in w.objects :
                     o.Kind = kind /\ o.Namespace = namespace /\ o.Name = name}
    IN IF kind \in w.failing THEN [err |-> Err("Get", "ServerTimeout")]
       ELSE IF found = {} THEN [err |-> Err("Get", "NotFound")]
       ELSE [err |-> Nil, obj |-> CHOOSE o \in found : TRUE]

\* Mutation: an AWSCluster without a region is returned as it is.
RegionOfAWSCluster_Unchecked(awsCluster) ==
    [region |-> awsCluster.Region, err |-> Nil]

\* The last check of getRegionFromAWSCluster.
RegionOfAWSCluster(awsCluster) ==
    IF awsCluster.Region = ""
    THEN [region |-> "", err |-> Err("AWSCluster has empty region", "config")]
    ELSE [region |-> awsCluster.Region, err |-> Nil]

getRegionFromAWSCluster(w, machineDeployment) ==
    LET clusterGet == Get(w, "Cluster", machineDeployment.Namespace,
                          machineDeployment.ClusterName)
    IN IF clusterGet.err # Nil
       THEN [region |-> "", err |-> Err("failed to fetch Cluster", clusterGet.err.is)]
       ELSE LET cluster == clusterGet.obj
                ref == cluster.InfrastructureRef
            IN IF ref = NilRef
               THEN [region |-> "", err |-> Err("cluster has nil infrastructureRef", "config")]
               ELSE IF ref.Name = ""
               THEN [region |-> "",
                     err |-> Err("cluster has empty infrastructureRef.Name", "config")]
               ELSE LET namespace == IF ref.Namespace = "" THEN cluster.Namespace
                                     ELSE ref.Namespace
                        awsGet == Get(w, "AWSCluster", namespace, ref.Name)
                    IN IF awsGet.err # Nil
                       THEN [region |-> "",
                             err |-> Err("failed to fetch AWSCluster", awsGet.err.is)]
                       ELSE RegionOfAWSCluster(awsGet.obj)

\* The annotation fallback of ResolveRegion.
RegionFromAnnotation(machineDeployment) ==
    IF /\ RegionAnnotation \in DOMAIN machineDeployment.Annotations
       /\ machineDeployment.Annotations[RegionAnnotation] # ""
    THEN [region |-> machineDeployment.Annotations[RegionAnnotation], err |-> Nil]
    ELSE [region |-> "", err |-> Err("unable to determine AWS region", "config")]

\* Mutation: the annotation, when set, overrides the AWSCluster.
ResolveRegion_AnnotationFirst(w, machineDeployment) ==
    IF RegionFromAnnotation(machineDeployment).err = Nil
    THEN RegionFromAnnotation(machineDeployment)
    ELSE IF machineDeployment.ClusterName # ""
    THEN getRegionFromAWSCluster(w, machineDeployment)
    ELSE RegionFromAnnotation(machineDeployment)

\* Mutation: only a missing object falls back to the annotation.
ResolveRegion_FallbackOnNotFoundOnly(w, machineDeployment) ==
    IF machineDeployment.ClusterName # ""
    THEN LET primary == getRegionFromAWSCluster(w, machineDeployment)
         IN IF primary.err = Nil \/ primary.err.is # "NotFound" THEN primary
            ELSE RegionFromAnnotation(machineDeployment)
    ELSE RegionFromAnnotation(machineDeployment)

\* Mutation: when no region is found the reconciler goes on with us-east-1.
ResolveRegion_DefaultRegion(w, machineDeployment) ==
    LET chain == getRegionFromAWSCluster(w, machineDeployment)
        annotated == RegionFromAnnotation(machineDeployment)
    IN IF chain.err = Nil THEN chain
       ELSE IF annotated.err = Nil THEN annotated
       ELSE [region |-> "us-east-1", err |-> Nil]

ResolveRegion(w, machineDeployment) ==
    LET primary == getRegionFromAWSCluster(w, machineDeployment)
    IN IF machineDeployment.ClusterName # "" /\ primary.err = Nil
       THEN [region |-> primary.region, err |-> Nil]
       ELSE RegionFromAnnotation(machineDeployment)

(* The MachineDeployments and object stores the resolver is run on *)

Annotated(region) ==
    IF region = "absent" THEN [k \in {} |-> ""]
    ELSE [k \in {RegionAnnotation} |-> IF region = "empty" THEN "" ELSE region]

TemplateRef ==
    [Kind |-> "AWSMachineTemplate", Name |-> "test-aws-template", Namespace |-> ""]

RegionMDs ==
    {[Name |-> "test-md", Namespace |-> "default", ClusterName |-> clusterName,
      InfrastructureRef |-> TemplateRef, Annotations |-> Annotated(region),
      DeletionTimestamp |-> 0] :
        clusterName \in {"", "test-cluster"},
        region \in {"absent", "empty", "us-west-2"}}

ClusterObj(ref) ==
    [Kind |-> "Cluster", Name |-> "test-cluster", Namespace |-> "default",
     InfrastructureRef |-> ref]

AWSClusterRef(name, namespace) ==
    [Kind |-> "AWSCluster", Name |-> name, Namespace |-> namespace]

AWSClusterObj(namespace, region) ==
    [Kind |-> "AWSCluster", Name |-> "test-cluster-aws", Namespace |-> namespace,
     Region |-> region]

ClusterChoices ==
    {{}} \cup {{ClusterObj(ref)} :
                  ref \in {NilRef, AWSClusterRef("", ""),
                           AWSClusterRef("test-cluster-aws", ""),
                           AWSClusterRef("test-cluster-aws", "infra")}}

AWSClusterChoices ==
    {a \cup b :
        a \in {{}, {AWSClusterObj("default", "")}, {AWSClusterObj("default", "us-east-1")}},
        b \in {{}, {AWSClusterObj("infra", "eu-west-1")}}}

RegionWorlds ==
    {[objects |-> c \cup a, failing |-> f] :
        c \in ClusterChoices, a \in AWSClusterChoices,
        f \in SUBSET {"Cluster", "AWSCluster"}}

RegionInit ==
    /\ CacheFresh(CacheRegions)
    /\ md \in RegionMDs
    /\ world \in RegionWorlds
    /\ rr = Pending
    /\ regionCache = Pending
    /\ rec = Pending
    /\ wr = Pending
    /\ ses = Pending
    /\ rv = Pending

\* utils.ResolveRegion(ctx, r.Client, machineDeployment)
ResolveRegionCall ==
    /\ rr = Pending
    /\ rr' = ResolveRegion(world, md)
    /\ UNCHANGED <<md, world, regionCache, rec, wr, ses, rv>>
    /\ UNCHANGED cacheVars

RegionNext == ResolveRegionCall

SpecRegion == RegionInit /\ [][RegionNext]_vars

---------------------------------------------------------------------------
(* Strings: the strconv, strings and sort functions reconcile calls *)

Char(s, i) == SubSeq(s, i, i)

\* strings.Index(s, c) for a one-byte c, counted from 1; 0 when absent
RECURSIVE IndexFrom(_, _, _)
IndexFrom(s, c, i) ==
    IF i > Len(s) THEN 0
    ELSE IF Char(s, i) = c THEN i
    ELSE IndexFrom(s, c, i + 1)

Index(s, c) == IndexFrom(s, c, 1)

\* strings.Split(s, sep) for a one-byte sep
RECURSIVE Split(_, _)
Split(s, sep) ==
    LET i == Index(s, sep)
    IN IF i = 0 THEN <<s>>
       ELSE <<SubSeq(s, 1, i - 1)>> \o Split(SubSeq(s, i + 1, Len(s)), sep)

\* strings.SplitN(s, sep, 2)
SplitN2(s, sep) ==
    LET i == Index(s, sep)
    IN IF i = 0 THEN <<s>>
       ELSE <<SubSeq(s, 1, i - 1), SubSeq(s, i + 1, Len(s))>>

WhiteSpace == {" ", "\t", "\n", "\r"}

\* strings.TrimSpace
RECURSIVE TrimSpace(_)
TrimSpace(s) ==
    IF s = "" THEN s
    ELSE IF Char(s, 1) \in WhiteSpace THEN TrimSpace(SubSeq(s, 2, Len(s)))
    ELSE IF Char(s, Len(s)) \in WhiteSpace THEN TrimSpace(SubSeq(s, 1, Len(s) - 1))
    ELSE s

\* strconv.FormatInt(n, 10)
RECURSIVE FormatInt(_)
FormatInt(n) ==
    IF n < 0 THEN "-" \o FormatInt(0 - n)
    ELSE IF n < 10 THEN Char("0123456789", n + 1)
    ELSE FormatInt(n \div 10) \o Char("0123456789", (n % 10) + 1)

\* The bytes of the strings of the model, in increasing byte order.
ByteOrder == "\t\n\r ,-./0123456789=_abcdefghijklmnopqrstuvwxyz"

Byte(c) == Index(ByteOrder, c)

\* a < b as Go compares strings
RECURSIVE StringLess(_, _)
StringLess(a, b) ==
    IF b = "" THEN FALSE
    ELSE IF a = "" THEN TRUE
    ELSE IF Char(a, 1) = Char(b, 1)
    THEN StringLess(SubSeq(a, 2, Len(a)), SubSeq(b, 2, Len(b)))
    ELSE Byte(Char(a, 1)) < Byte(Char(b, 1))

\* sort.Strings applied to the strings of a set
RECURSIVE SortStrings(_)
SortStrings(S) ==
    IF S = {} THEN <<>>
    ELSE LET least == CHOOSE a \in S : \A b \in S \ {a} : StringLess(a, b)
         IN <<least>> \o SortStrings(S \ {least})

\* strings.Join(elems, sep)
RECURSIVE Join(_, _)
Join(elems, sep) ==
    IF elems = <<>> THEN ""
    ELSE IF Len(elems) = 1 THEN elems[1]
    ELSE elems[1] \o sep \o Join(Tail(elems), sep)

---------------------------------------------------------------------------
(* The annotations reconcile owns *)

cpuKey == "machine.openshift.io/vCPU"
memoryKey == "machine.openshift.io/memoryMb"
gpuKey == "machine.openshift.io/GPU"
labelsKey == "capacity.cluster-autoscaler.kubernetes.io/labels"
archLabelKey == "kubernetes.io/arch"

\* m[k] = v on a Go map
\* Mutation: a key that is already set keeps its value.
Put_IfAbsent(m, k, v) == [x \in DOMAIN m \cup {k} |-> IF x \in DOMAIN m THEN m[x] ELSE v]

Put(m, k, v) == [x \in DOMAIN m \cup {k} |-> IF x = k THEN v ELSE m[x]]

EmptyMap == [k \in {} |-> ""]

\* The loop over strings.Split(existingLabels, ","), from piece i on.
RECURSIVE ParseLabels(_, _, _)
ParseLabels(labelsMap, pieces, i) ==
    IF i > Len(pieces) THEN labelsMap
    ELSE LET parts == SplitN2(TrimSpace(pieces[i]), "=")
         IN ParseLabels(IF Len(parts) = 2 THEN Put(labelsMap, parts[1], parts[2])
                        ELSE labelsMap,
                        pieces, i + 1)

\* Mutation: the labels annotation is overwritten with the architecture label.
MergeLabels_ArchOnly(annotations, architecture) ==
    archLabelKey \o "=" \o architecture

\* Mutation: the architecture label is appended to the existing list.
MergeLabels_Append(annotations, architecture) ==
    IF labelsKey \in DOMAIN annotations /\ annotations[labelsKey] # ""
    THEN annotations[labelsKey] \o "," \o archLabelKey \o "=" \o architecture
    ELSE archLabelKey \o "=" \o architecture

\* Mutation: the caller's labels are sorted and the architecture label is
\* put after them.
MergeLabels_ArchLast(annotations, architecture) ==
    LET parsed == IF labelsKey \in DOMAIN annotations /\ annotations[labelsKey] # ""
                  THEN ParseLabels(EmptyMap, Split(annotations[labelsKey], ","), 1)
                  ELSE EmptyMap
        others == DOMAIN parsed \ {archLabelKey}
    IN Join(SortStrings({k \o "=" \o parsed[k] : k \in others})
               \o <<archLabelKey \o "=" \o architecture>>, ",")

\* The new value of the labels annotation.
MergeLabels(annotations, architecture) ==
    LET parsed == IF labelsKey \in DOMAIN annotations /\ annotations[labelsKey] # ""
                  THEN ParseLabels(EmptyMap, Split(annotations[labelsKey], ","), 1)
                  ELSE EmptyMap
        labelsMap == Put(parsed, archLabelKey, architecture)
    IN Join(SortStrings({k \o "=" \o labelsMap[k] : k \in DOMAIN labelsMap}), ",")

\* Mutation: the four keys are written into a new, empty map.
SetAnnotations_Fresh(annotations, instanceTypeInfo) ==
    [k \in {cpuKey, memoryKey, gpuKey, labelsKey} |->
        IF k = cpuKey THEN FormatInt(instanceTypeInfo.VCPU)
        ELSE IF k = memoryKey THEN FormatInt(instanceTypeInfo.MemoryMb)
        ELSE IF k = gpuKey THEN FormatInt(instanceTypeInfo.GPU)
        ELSE MergeLabels(annotations, instanceTypeInfo.CPUArchitecture)]

\* "Set annotations", the tail of reconcile.
SetAnnotations(annotations, instanceTypeInfo) ==
    LET withCpu == Put(annotations, cpuKey, FormatInt(instanceTypeInfo.VCPU))
        withMemory == Put(withCpu, memoryKey, FormatInt(instanceTypeInfo.MemoryMb))
        withGpu == Put(withMemory, gpuKey, FormatInt(instanceTypeInfo.GPU))
    IN Put(withGpu, labelsKey, MergeLabels(withGpu, instanceTypeInfo.CPUArchitecture))

---------------------------------------------------------------------------
(* The AWSMachineTemplate (pkg/utils) *)

\* Mutation: the kind and the name of the reference are not looked at.
ResolveAWSMachineTemplate_AnyKind(w, machineDeployment) ==
    LET infraRef == machineDeployment.InfrastructureRef
        namespace == IF infraRef.Namespace = "" THEN machineDeployment.Namespace
                     ELSE infraRef.Namespace
        got == Get(w, "AWSMachineTemplate", namespace, "test-aws-template")
    IN IF got.err # Nil
       THEN [err |-> Err("failed to fetch AWSMachineTemplate", got.err.is),
             gets |-> <<"AWSMachineTemplate">>]
       ELSE [err |-> Nil, gets |-> <<"AWSMachineTemplate">>, template |-> got.obj]

\* Mutation: the namespace of the reference is used as it is.
ResolveAWSMachineTemplate_RefNamespaceOnly(w, machineDeployment) ==
    LET infraRef == machineDeployment.InfrastructureRef
        got == Get(w, "AWSMachineTemplate", infraRef.Namespace, infraRef.Name)
    IN IF infraRef.Name = ""
       THEN [err |-> Err("infrastructureRef.name is empty", "config"), gets |-> <<>>]
       ELSE IF infraRef.Kind # "AWSMachineTemplate"
       THEN [err |-> Err("expected AWSMachineTemplate", "config"), gets |-> <<>>]
       ELSE IF got.err # Nil
       THEN [err |-> Err("failed to fetch AWSMachineTemplate", got.err.is),
             gets |-> <<"AWSMachineTemplate">>]
       ELSE [err |-> Nil, gets |-> <<"AWSMachineTemplate">>, template |-> got.obj]

ResolveAWSMachineTemplate(w, machineDeployment) ==
    LET infraRef == machineDeployment.InfrastructureRef
        namespace == IF infraRef.Namespace = "" THEN machineDeployment.Namespace
                     ELSE infraRef.Namespace
        got == Get(w, "AWSMachineTemplate", namespace, infraRef.Name)
    IN IF infraRef.Name = ""
       THEN [err |-> Err("infrastructureRef.name is empty", "config"), gets |-> <<>>]
       ELSE IF infraRef.Kind # "AWSMachineTemplate"
       THEN [err |-> Err("expected AWSMachineTemplate", "config"), gets |-> <<>>]
       ELSE IF got.err # Nil
       THEN [err |-> Err("failed to fetch AWSMachineTemplate", got.err.is),
             gets |-> <<"AWSMachineTemplate">>]
       ELSE [err |-> Nil, gets |-> <<"AWSMachineTemplate">>, template |-> got.obj]

\* Mutation: an empty instance type is handed on.
ExtractInstanceType_AllowEmpty(template) ==
    [instanceType |-> template.InstanceType, err |-> Nil]

ExtractInstanceType(template) ==
    IF template.InstanceType = ""
    THEN [instanceType |-> "",
          err |-> Err("instanceType is empty in AWSMachineTemplate", "config")]
    ELSE [instanceType |-> template.InstanceType, err |-> Nil]

---------------------------------------------------------------------------
(* The AWS client (pkg/client) *)

\* The regions the endpoint resolver of the SDK knows.
SDKRegions == {"us-east-1", "us-west-2", "eu-west-1"}

\* Mutation: the endpoint resolver knows no region.
EndpointFor_NoneKnown(region) ==
    [what |-> "could not resolve endpoint", is |-> "UnknownEndpointError"]

\* s.Config.EndpointResolver.EndpointFor("ec2", region, StrictMatching)
EndpointFor(region) ==
    IF region \in SDKRegions THEN Nil
    ELSE Err("could not resolve endpoint", "UnknownEndpointError")

\* os.Getenv on the environment of the process; "" for a variable not set
Getenv(env, name) == IF name \in DOMAIN env THEN env[name] ELSE ""

\* Mutation: one of the two variables is enough for IRSA.
IRSAConfigured_Either(roleARN, tokenFile) == roleARN # "" \/ tokenFile # ""

\* The test newAWSSession chooses the authentication mode with.
IRSAConfigured(roleARN, tokenFile) == roleARN # "" /\ tokenFile # ""

\* newAWSSession: the mode it logs, its log lines, and the session or the
\* error of session.NewSessionWithOptions.
newAWSSession(aws, region) ==
    LET roleARN == Getenv(aws.env, "AWS_ROLE_ARN")
        tokenFile == Getenv(aws.env, "AWS_WEB_IDENTITY_TOKEN_FILE")
        irsa == IRSAConfigured(roleARN, tokenFile)
        mode == IF irsa THEN "IRSA" ELSE "default credential chain"
        log == IF irsa
               THEN <<"Using IRSA authentication with role: " \o roleARN>>
               ELSE <<"IRSA not configured, using default AWS credential chain (environment variables, ~/.aws/credentials, EC2 metadata, etc.)">>
    IN IF aws.session = "error"
       THEN [err |-> Err("NewSessionWithOptions", "session"), mode |-> mode, log |-> log]
       ELSE [err |-> Nil, mode |-> mode, log |-> log,
             session |-> [Region |-> region, AccessKeyID |-> aws.AccessKeyID,
                          credentials |-> aws.credentials]]

\* the zero DescribeRegionsData
NoOutput == <<"nil">>
NoRegionData == [err |-> Nil, describeRegionsOutput |-> NoOutput, lastUpdated |-> 0]

\* Mutation: every credential identity shares one entry.
CacheKey_Shared(awsSession) == ""

\* creds.AccessKeyID, the key of c.data
CacheKey(awsSession) == awsSession.AccessKeyID

\* c.data[key]: the zero value when the map has no such key
RegionDataOf(data, key) == IF key \in DOMAIN data THEN data[key] ELSE NoRegionData

\* Mutation: an entry is good for ever.
StillValid_NoExpiry(regionData, t) ==
    /\ regionData.describeRegionsOutput # NoOutput
    /\ regionData.err = Nil

\* The test under which the cached output is returned.
StillValid(regionData, t) ==
    /\ regionData.describeRegionsOutput # NoOutput
    /\ regionData.err = Nil
    /\ t - regionData.lastUpdated < awsRegionsCacheExpirationDuration

\* c.data after a successful DescribeRegions answered at time t.
StoreRegions(data, key, regionData, output, t) ==
    Put(data, key, [regionData EXCEPT !.describeRegionsOutput = output,
                                      !.lastUpdated = t])

\* Mutation: the failed entry, with its error, is put into the map.
FailRegions_StoreError(data, key, regionData, err) ==
    [k \in DOMAIN data \cup {key} |->
        IF k = key THEN [regionData EXCEPT !.err = err] ELSE data[k]]

\* c.data after a failed request: regionData.err = err is set on the copy
\* read from the map, and nothing is written back.
FailRegions(data, key, regionData, err) == data

\* Mutation: the session keeps the region the request was sent to.
RestoreRegion_Skipped(awsSession, currentRegion) == awsSession

\* awsSession.Config.Region = currentRegion
RestoreRegion(awsSession, currentRegion) == [awsSession EXCEPT !.Region = currentRegion]

GetCachedDescribeRegions(data, awsSession, aws, t) ==
    LET key == CacheKey(awsSession)
        regionData == RegionDataOf(data, key)
        currentRegion == awsSession.Region
        requestSession == [awsSession EXCEPT !.Region = "us-east-1"]
        restored == RestoreRegion(requestSession, currentRegion)
    IN IF awsSession.credentials = "error"
       THEN [output |-> NoOutput, err |-> Err("Credentials.Get", "NoCredentialProviders"),
             data |-> data, session |-> awsSession, sentTo |-> ""]
       ELSE IF StillValid(regionData, t)
       THEN [output |-> regionData.describeRegionsOutput, err |-> Nil,
             data |-> data, session |-> awsSession, sentTo |-> ""]
       ELSE IF aws.describeRegions = NoOutput
       THEN [output |-> NoOutput, err |-> Err("DescribeRegions", "RequestError"),
             data |-> FailRegions(data, key, regionData,
                                  Err("DescribeRegions", "RequestError")),
             session |-> restored, sentTo |-> requestSession.Region]
       ELSE [output |-> aws.describeRegions, err |-> Nil,
             data |-> StoreRegions(data, key, regionData, aws.describeRegions, t),
             session |-> restored, sentTo |-> requestSession.Region]

\* Mutation: a region that is listed is accepted.
validateRegion_MembershipOnly(describeRegionsOutput, region) ==
    IF \E i \in 1..Len(describeRegionsOutput) :
          describeRegionsOutput[i].RegionName = region
    THEN Nil
    ELSE Err("is not a valid region", "config")

validateRegion(describeRegionsOutput, region) ==
    LET hits == {i \in 1..Len(describeRegionsOutput) :
                    describeRegionsOutput[i].RegionName = region}
        regionData == describeRegionsOutput[CHOOSE i \in hits : \A j \in hits : i <= j]
    IN IF hits = {} THEN Err("is not a valid region", "config")
       ELSE IF regionData.OptInStatus = "not-opted-in"
       THEN Err("is not opted in", "config")
       ELSE Nil

\* Mutation: every error of the resolver counts as an unknown endpoint.
SessionEndpointFor_AllUnknown(aws, region) ==
    IF aws.resolver = "default" THEN EndpointFor(region)
    ELSE Err("could not resolve endpoint", "UnknownEndpointError")

\* s.Config.EndpointResolver.EndpointFor: the table of the SDK, or a resolver
\* that fails with an error of another type.
SessionEndpointFor(aws, region) ==
    IF aws.resolver = "default" THEN EndpointFor(region)
    ELSE Err("could not resolve endpoint", "UnknownServiceError")

NewValidatedClient(data, aws, region, t) ==
    LET s == newAWSSession(aws, region)
        resolved == SessionEndpointFor(aws, region)
        regions == GetCachedDescribeRegions(data, s.session, aws, t)
        valid == validateRegion(regions.output, region)
        client == [region |-> region, aws |-> aws]
    IN IF s.err # Nil
       THEN [err |-> s.err, data |-> data, describeRegions |-> 0,
             regionCacheCalls |-> 0, regionListFailed |-> FALSE]
       ELSE IF resolved = Nil
       THEN [err |-> Nil, data |-> data, describeRegions |-> 0,
             regionCacheCalls |-> 0, regionListFailed |-> FALSE, client |-> client]
       ELSE IF resolved.is # "UnknownEndpointError"
       THEN [err |-> Err("region not resolved", resolved.is), data |-> data,
             describeRegions |-> 0, regionCacheCalls |-> 0,
             regionListFailed |-> FALSE]
       ELSE IF regions.err # Nil
       THEN [err |-> Err("could not retrieve region data", regions.err.is),
             data |-> regions.data,
             describeRegions |-> IF regions.sentTo = "" THEN 0 ELSE 1,
             regionCacheCalls |-> 1, regionListFailed |-> TRUE]
       ELSE IF valid # Nil
       THEN [err |-> valid, data |-> regions.data,
             describeRegions |-> IF regions.sentTo = "" THEN 0 ELSE 1,
             regionCacheCalls |-> 1, regionListFailed |-> FALSE]
       ELSE [err |-> Nil, data |-> regions.data,
             describeRegions |-> IF regions.sentTo = "" THEN 0 ELSE 1,
             regionCacheCalls |-> 1, regionListFailed |-> FALSE, client |-> client]

---------------------------------------------------------------------------
(* GetInstanceType when one reconciler is the only caller of the cache *)

\* The pagination loop from token on; failAt is the page whose request fails.
RECURSIVE FetchAll(_, _, _, _)
FetchAll(cat, token, acc, failAt) ==
    IF token = failAt THEN [ok |-> FALSE, pages |-> token]
    ELSE LET out == DescribeInstanceTypes(cat, token)
             entries == Accumulate(acc, out.InstanceTypes)
         IN IF MorePages(out) THEN FetchAll(cat, out.NextToken, entries, failAt)
            ELSE [ok |-> TRUE, pages |-> token, entries |-> entries]

GetInstanceType(awsClient, region, typeName) ==
    LET fetched == FetchAll(awsClient.aws.cat, 1, EmptyEntries, awsClient.aws.failAt)
        snapshot == [entries |-> fetched.entries, fetchedAt |-> now,
                     cat |-> awsClient.aws.cat]
    IN IF ~cacheNeedsRefresh(region)
       THEN [result |-> Lookup(instanceTypes[region], typeName),
             instanceTypes |-> instanceTypes, pages |-> 0, fetchFailed |-> FALSE]
       ELSE IF fetched.ok
       THEN [result |-> Lookup(snapshot, typeName),
             instanceTypes |-> [instanceTypes EXCEPT ![region] = snapshot],
             pages |-> fetched.pages, fetchFailed |-> FALSE]
       ELSE [result |-> AfterFailedFetch(region, typeName),
             instanceTypes |-> instanceTypes, pages |-> fetched.pages,
             fetchFailed |-> TRUE]

---------------------------------------------------------------------------
(* The reconciler (pkg/controller) *)

Warning(reason, message) == [type |-> "Warning", reason |-> reason, message |-> message]

\* What reconcile returned and did: err and requeue are its return values,
\* annotations the map of the in-memory MachineDeployment afterwards, gets the
\* objects ResolveAWSMachineTemplate asked the API for.
Returned(gets, err, events, annotations, its, data, steps, lookup, aws) ==
    [err |-> err, requeue |-> FALSE, events |-> events, annotations |-> annotations,
     instanceTypes |-> its, data |-> data, steps |-> steps, lookup |-> lookup,
     aws |-> aws, gets |-> gets]

\* The AWS calls of one reconcile: how many were sent and which kind failed.
NoAWSCalls ==
    [describeRegions |-> 0, regionCacheCalls |-> 0, regionListFailed |-> FALSE,
     describeInstanceTypes |-> 0, fetchFailed |-> FALSE]

\* Mutation: an instance type the cache does not know is an error.
LookupFailed_ReturnsError(err) == err

\* The error reconcile returns when GetInstanceType failed.
LookupFailed(err) == Nil

reconcile(machineDeployment, aws) ==
    LET template == ResolveAWSMachineTemplate(world, machineDeployment)
        extracted == ExtractInstanceType(template.template)
        resolved == ResolveRegion(world, machineDeployment)
        built == NewValidatedClient(regionCache, aws, resolved.region, now)
        got == GetInstanceType(built.client, resolved.region, extracted.instanceType)
        calls == [describeRegions |-> built.describeRegions,
                  regionCacheCalls |-> built.regionCacheCalls, regionListFailed |-> FALSE,
                  describeInstanceTypes |-> got.pages, fetchFailed |-> got.fetchFailed]
        unchanged == machineDeployment.Annotations
    IN IF template.err # Nil
       THEN Returned(template.gets, template.err,
                     <<Warning("FailedUpdate", "Failed to resolve AWSMachineTemplate")>>,
                     unchanged, instanceTypes, regionCache,
                     <<"ResolveAWSMachineTemplate">>, "none", NoAWSCalls)
       ELSE IF extracted.err # Nil
       THEN Returned(template.gets, extracted.err,
                     <<Warning("FailedUpdate", "Failed to extract instance type")>>,
                     unchanged, instanceTypes, regionCache,
                     <<"ResolveAWSMachineTemplate", "ExtractInstanceType">>, "none",
                     NoAWSCalls)
       ELSE IF resolved.err # Nil
       THEN Returned(template.gets, resolved.err,
                     <<Warning("FailedUpdate", "Failed to resolve AWS region")>>,
                     unchanged, instanceTypes, regionCache,
                     <<"ResolveAWSMachineTemplate", "ExtractInstanceType",
                       "ResolveRegion">>, "none", NoAWSCalls)
       ELSE IF built.err # Nil
       THEN Returned(template.gets, Err("error creating aws client", built.err.is), <<>>,
                     unchanged, instanceTypes, built.data,
                     <<"ResolveAWSMachineTemplate", "ExtractInstanceType",
                       "ResolveRegion", "AwsClientBuilder">>, "none",
                     [NoAWSCalls EXCEPT !.describeRegions = built.describeRegions,
                                        !.regionCacheCalls = built.regionCacheCalls,
                                        !.regionListFailed = built.regionListFailed])
       ELSE IF got.result.kind # "ok"
       THEN Returned(template.gets, LookupFailed(Err("GetInstanceType", got.result.kind)),
                     <<Warning("FailedUpdate",
                               "Failed to set autoscaling from zero annotations, instance type unknown")>>,
                     unchanged, got.instanceTypes, built.data,
                     <<"ResolveAWSMachineTemplate", "ExtractInstanceType",
                       "ResolveRegion", "AwsClientBuilder", "GetInstanceType">>,
                     got.result.kind, calls)
       ELSE Returned(template.gets, Nil, <<>>,
                     SetAnnotations(unchanged, got.result.instanceType),
                     got.instanceTypes, built.data,
                     <<"ResolveAWSMachineTemplate", "ExtractInstanceType",
                       "ResolveRegion", "AwsClientBuilder", "GetInstanceType",
                       "SetAnnotations">>, "ok", calls)

\* The MachineDeployment the request names is not in the store.
Gone == [gone |-> TRUE]

NotRun == [ran |-> FALSE]

\* r.Client.Get(ctx, req.NamespacedName, machineDeployment)
GetMachineDeployment ==
    IF "MachineDeployment" \in world.failing THEN Err("Get", "ServerTimeout")
    ELSE IF md = Gone THEN Err("Get", "NotFound")
    ELSE Nil

\* Mutation: a MachineDeployment that is not found is an error like any other.
GetFailed_NotFoundToo(err) == err

\* What Reconcile returns when the Get of the MachineDeployment failed.
GetFailed(err) == IF err.is = "NotFound" THEN Nil ELSE err

\* r.Client.Patch(ctx, machineDeployment, originalMachineDeploymentToPatch)
PatchMachineDeployment(w) ==
    IF "Patch" \in w.failing
    THEN Err("failed to patch machineDeployment", "patch") ELSE Nil

\* Mutation: the error of reconcile is returned before the patch is looked at.
ReturnedError_ReconcileFirst(reconcileErr, patchErr) ==
    IF reconcileErr # Nil THEN reconcileErr ELSE patchErr

\* The error Reconcile returns after the patch.
ReturnedError(reconcileErr, patchErr) ==
    IF patchErr # Nil THEN patchErr ELSE reconcileErr

\* Reconciler.Reconcile
Reconcile(aws) ==
    \E inner \in {IF GetMachineDeployment = Nil /\ md.DeletionTimestamp = 0
                   THEN reconcile(md, aws) ELSE NotRun} :
    LET getErr == GetMachineDeployment
        events == IF inner.err # Nil
                  THEN inner.events \o <<Warning("ReconcileError", inner.err.what)>>
                  ELSE inner.events
        patchFails == PatchMachineDeployment(world) # Nil
    IN /\ IF getErr # Nil
          THEN /\ rec' = [err |-> GetFailed(getErr),
                          requeue |-> FALSE, events |-> <<>>, patch |-> "none",
                          reconcile |-> NotRun]
               /\ UNCHANGED <<md, instanceTypes, regionCache>>
          ELSE IF md.DeletionTimestamp # 0
          THEN /\ rec' = [err |-> Nil, requeue |-> FALSE, events |-> <<>>,
                          patch |-> "none", reconcile |-> NotRun]
               /\ UNCHANGED <<md, instanceTypes, regionCache>>
          ELSE /\ rec' = [err |-> ReturnedError(inner.err, PatchMachineDeployment(world)),
                          requeue |-> IF patchFails THEN FALSE ELSE inner.requeue,
                          events |-> events,
                          patch |-> IF patchFails THEN "failed" ELSE "ok",
                          reconcile |-> inner]
               /\ md' = IF patchFails THEN md
                        ELSE [md EXCEPT !.Annotations = inner.annotations]
               /\ instanceTypes' = inner.instanceTypes
               /\ regionCache' = inner.data
       /\ UNCHANGED <<now, refreshLock, pc, req, fetch, result, path, seen, world, rr,
                       wr, ses, rv>>

(* The MachineDeployments, object stores and AWS answers Reconcile is run on *)

TemplateObj(instanceType) ==
    [Kind |-> "AWSMachineTemplate", Name |-> "test-aws-template",
     Namespace |-> "default", InstanceType |-> instanceType]

OwnerAnnotations ==
    [k \in {labelsKey, "owner"} |-> IF k = "owner" THEN "team-a" ELSE "zone=b"]

ReconcileAnnotations ==
    {EmptyMap,
     [k \in {RegionAnnotation} |-> "us-west-2"],
     OwnerAnnotations,
     [k \in {labelsKey, cpuKey} |->
         IF k = cpuKey THEN "2" ELSE " zone=b , kubernetes.io/arch=arm64,spot"]}

ReconcileMD(ref, annotations, deletionTimestamp) ==
    [Name |-> "test-md", Namespace |-> "default", ClusterName |-> "test-cluster",
     InfrastructureRef |-> ref, Annotations |-> annotations,
     DeletionTimestamp |-> deletionTimestamp]

ReconcileMDs ==
    {ReconcileMD(TemplateRef, a, 0) : a \in ReconcileAnnotations}
    \cup {ReconcileMD([TemplateRef EXCEPT !.Kind = "DockerMachineTemplate"],
                      OwnerAnnotations, 0),
          ReconcileMD([TemplateRef EXCEPT !.Name = ""], OwnerAnnotations, 0),
          ReconcileMD(TemplateRef, EmptyMap, 1),
          Gone}

ReconcileWorlds ==
    {[objects |-> {ClusterObj(AWSClusterRef("test-cluster-aws", "")),
                   AWSClusterObj("default", region)} \cup t,
      failing |-> f] :
        region \in {"us-east-1", "ap-future-1", ""},
        t \in {{}} \cup {{TemplateObj(i)} :
                            i \in {"a1.2xlarge", "p2.16xlarge", "invalid", ""}},
        f \in {{}, {"MachineDeployment"}, {"AWSMachineTemplate"}, {"AWSCluster"},
               {"Patch"}}}

\* The regions ResolveRegion can hand to the cache.
ReconcileRegions == {"us-east-1", "us-west-2", "ap-future-1"}

RegionsOptedIn ==
    <<[RegionName |-> "us-east-1", OptInStatus |-> "opt-in-not-required"],
      [RegionName |-> "ap-future-1", OptInStatus |-> "opted-in"]>>

RegionsNotOptedIn ==
    <<[RegionName |-> "us-east-1", OptInStatus |-> "opt-in-not-required"],
      [RegionName |-> "ap-future-1", OptInStatus |-> "not-opted-in"]>>

\* The environment of a pod with IRSA: both variables injected.
IRSAEnv ==
    [AWS_ROLE_ARN |-> "arn:aws:iam::123456789012:role/my-role",
     AWS_WEB_IDENTITY_TOKEN_FILE |->
         "/var/run/secrets/eks.amazonaws.com/serviceaccount/token"]

\* AWS answering every call of one Reconcile.
Healthy(d, cat) ==
    [env |-> IRSAEnv, session |-> "ok", resolver |-> "default",
     AccessKeyID |-> "AKIDEXAMPLE", credentials |-> "ok", describeRegions |-> d,
     cat |-> cat, failAt |-> 0]

\* What AWS answers during one Reconcile: every call succeeds, or one kind of
\* call fails (the session, the credentials, DescribeRegions, or a page of
\* DescribeInstanceTypes).
AwsAnswers ==
    {Healthy(d, cat) : d \in {RegionsOptedIn, RegionsNotOptedIn}, cat \in Catalogs}
    \cup {[Healthy(RegionsOptedIn, cat) EXCEPT !.failAt = failAt] :
            cat \in Catalogs, failAt \in 1..2}
    \cup {Healthy(NoOutput, FakeInstanceTypes),
          [Healthy(NoOutput, FakeInstanceTypes) EXCEPT !.session = "error"],
          [Healthy(NoOutput, FakeInstanceTypes) EXCEPT !.credentials = "error"]}

Init ==
    /\ CacheFresh(ReconcileRegions)
    /\ md \in ReconcileMDs
    /\ world \in ReconcileWorlds
    /\ rr = Pending
    /\ regionCache = [k \in {} |-> NoRegionData]
    /\ rec = Pending
    /\ wr = Pending
    /\ ses = Pending
    /\ rv = Pending

Next ==
    \/ \E aws \in AwsAnswers : Reconcile(aws)
    \/ Advance

Spec == Init /\ [][Next]_vars

---------------------------------------------------------------------------
(* The annotation step of reconcile, run again and again *)

MaxLabels == 3
MaxWrites == 2

\* One comma-separated piece of a labels annotation: a key=value pair, with
\* or without white space around it, or a piece without "=".
Pair(lead, key, value, trail) ==
    [text |-> lead \o key \o "=" \o value \o trail, pair |-> TRUE,
     key |-> key, value |-> value]

NoPair(text) == [text |-> text, pair |-> FALSE, key |-> "", value |-> ""]

LabelPieces ==
    {Pair("", "zone", "a", ""), Pair(" ", "zone", "b", " "), Pair("", "team", "x=y", ""),
     Pair("", archLabelKey, "arm64", ""), Pair("", archLabelKey, "x86", ""),
     NoPair("spot")}

RECURSIVE SeqsUpTo(_, _)
SeqsUpTo(S, n) ==
    IF n = 0 THEN {<<>>}
    ELSE LET shorter == SeqsUpTo(S, n - 1)
         IN shorter \cup {Append(q, x) : q \in shorter, x \in S}

RECURSIVE Texts(_)
Texts(pieces) ==
    IF pieces = <<>> THEN <<>> ELSE <<Head(pieces).text>> \o Texts(Tail(pieces))

\* The annotations the MachineDeployment carries besides the labels.
OtherAnnotations ==
    {EmptyMap,
     [k \in {"existing", "annother", cpuKey, gpuKey} |->
         IF k = "existing" THEN "annotation"
         ELSE IF k = "annother" THEN "existingAnnotation"
         ELSE IF k = cpuKey THEN "2" ELSE "none"]}

\* The instance types the step is run for: the listing of the fake client
\* and the same type under further architecture identifiers.
WriterInfos ==
    {FakeInstanceTypes[1][i] : i \in 1..Len(FakeInstanceTypes[1])}
    \cup {[FakeInstanceTypes[1][1] EXCEPT !.SupportedArchitectures = a] :
             a \in {<<"x86_64">>, <<"">>, <<"i386", "arm64">>}}

WriterInit ==
    /\ CacheFresh(CacheRegions)
    /\ world = Pending
    /\ rr = Pending
    /\ regionCache = Pending
    /\ rec = Pending
    /\ ses = Pending
    /\ rv = Pending
    /\ \E other \in OtherAnnotations, info \in WriterInfos,
          pieces \in SeqsUpTo(LabelPieces, MaxLabels), hasLabels \in BOOLEAN :
          /\ hasLabels \/ pieces = <<>>
          /\ md = ReconcileMD(TemplateRef,
                              IF hasLabels
                              THEN Put(other, labelsKey, Join(Texts(pieces), ","))
                              ELSE other,
                              0)
          /\ wr = [info |-> info, pieces |-> pieces, original |-> md.Annotations,
                   previous |-> md.Annotations, writes |-> 0]

\* reconcile from "Set annotations" on, with the descriptor of wr.info.
WriteAnnotations ==
    /\ wr.writes < MaxWrites
    /\ md' = [md EXCEPT !.Annotations = SetAnnotations(md.Annotations, InstanceType(wr.info))]
    /\ wr' = [wr EXCEPT !.previous = md.Annotations, !.writes = wr.writes + 1]
    /\ UNCHANGED <<world, rr, regionCache, rec, ses, rv>>
    /\ UNCHANGED cacheVars

WriterNext == WriteAnnotations

SpecWriter == WriterInit /\ [][WriterNext]_vars

---------------------------------------------------------------------------
(* newAWSSession in two environments *)

RoleARNs ==
    {"", "arn:aws:iam::123456789012:role/my-role", "arn:aws:iam::999999999999:role/other"}

TokenFiles ==
    {"", "/var/run/secrets/eks.amazonaws.com/serviceaccount/token", "/tmp/token"}

Envs ==
    {[AWS_ROLE_ARN |-> r, AWS_WEB_IDENTITY_TOKEN_FILE |-> t] :
        r \in RoleARNs, t \in TokenFiles}

\* The two environments set the same variables, to values that may differ.
SameVariablesSet(e1, e2) ==
    /\ (e1.AWS_ROLE_ARN = "") <=> (e2.AWS_ROLE_ARN = "")
    /\ (e1.AWS_WEB_IDENTITY_TOKEN_FILE = "") <=> (e2.AWS_WEB_IDENTITY_TOKEN_FILE = "")

SessionInit ==
    /\ CacheFresh(CacheRegions)
    /\ md = Pending
    /\ world = Pending
    /\ rr = Pending
    /\ regionCache = Pending
    /\ rec = Pending
    /\ wr = Pending
    /\ rv = Pending
    /\ \E e1 \in Envs, e2 \in Envs, sdk \in {"ok", "error"},
          credentials \in {"ok", "error"} :
          /\ SameVariablesSet(e1, e2)
          /\ ses = [env |-> <<e1, e2>>, session |-> sdk, credentials |-> credentials,
                    ret |-> <<Pending, Pending>>]

\* newAWSSession(ctrlRuntimeClient, "", namespace, "us-east-1") in environment i
CallNewAWSSession(i) ==
    /\ ses.ret[i] = Pending
    /\ ses' = [ses EXCEPT !.ret[i] =
                  newAWSSession([Healthy(RegionsOptedIn, FakeInstanceTypes)
                                    EXCEPT !.env = ses.env[i], !.session = ses.session,
                                           !.credentials = ses.credentials],
                                "us-east-1")]
    /\ UNCHANGED <<md, world, rr, regionCache, rec, wr, rv>>
    /\ UNCHANGED cacheVars

SessionNext == \E i \in 1..2 : CallNewAWSSession(i)

SpecSession == SessionInit /\ [][SessionNext]_vars

---------------------------------------------------------------------------
(* The region directory cache under concurrent validators *)

Validators == Workers

\* The AccessKeyIDs the validators' credentials resolve to.
Identities == {"AKIDA", "AKIDB"}

\* What DescribeRegions(AllRegions) answers for an identity: the accounts
\* differ in the regions they have opted in to.
DirectoryOf(key) == IF key = "AKIDA" THEN RegionsOptedIn ELSE RegionsNotOptedIn

DirTick == awsRegionsCacheExpirationDuration \div 2
MaxDirTime == MaxTicks * DirTick

NoReturn == [path |-> "none"]

\* The region the validators of an identity validate: one the endpoint table
\* of the SDK does not know.
RegionFor(key) == IF key = "AKIDA" THEN "ap-future-1" ELSE "eu-south-9"

\* The session a validator built for the region it validates.
ValidatorSession(key) ==
    [Region |-> RegionFor(key), AccessKeyID |-> key, credentials |-> "ok"]

\* GetCachedDescribeRegions is entered: Credentials.Get() fails, or the
\* caller goes on to c.mutex.Lock().
CallGetCachedDescribeRegions(v, key, credentials) ==
    /\ rv.pc[v] \in {"idle", "done"}
    /\ IF credentials = "error"
       THEN rv' = [rv EXCEPT !.pc[v] = "done",
                              !.session[v] = [ValidatorSession(key)
                                                 EXCEPT !.credentials = "error"],
                              !.ret[v] = [path |-> "nocreds", output |-> NoOutput,
                                          err |-> Err("Credentials.Get",
                                                      "NoCredentialProviders")]]
       ELSE rv' = [rv EXCEPT !.pc[v] = "lock",
                              !.session[v] = ValidatorSession(key),
                              !.ret[v] = NoReturn]
    /\ UNCHANGED <<md, world, rr, regionCache, rec, wr, ses>>
    /\ UNCHANGED cacheVars

\* Mutation: Lock() lets every caller through.
MutexFree_Always(mutex) == TRUE

\* c.mutex.Lock() lets a caller through when nobody holds the mutex.
MutexFree(mutex) == mutex = NoWorker

\* c.mutex.Lock() returns. A still valid entry is returned and the deferred
\* Unlock runs; otherwise the caller points its session at us-east-1 and
\* sends DescribeRegions, holding the mutex.
LockRegionCache(v) ==
    /\ rv.pc[v] = "lock"
    /\ MutexFree(rv.mutex)
    /\ LET regionData == RegionDataOf(regionCache, CacheKey(rv.session[v]))
       IN IF StillValid(regionData, now)
          THEN rv' = [rv EXCEPT !.pc[v] = "done",
                                 !.ret[v] = [path |-> "cached",
                                             output |-> regionData.describeRegionsOutput,
                                             err |-> Nil]]
          ELSE rv' = [rv EXCEPT !.pc[v] = "fetching",
                                 !.mutex = v,
                                 !.currentRegion[v] = rv.session[v].Region,
                                 !.session[v].Region = "us-east-1",
                                 !.ret[v] = [path |-> "sent"]]
    /\ UNCHANGED <<md, world, rr, regionCache, rec, wr, ses>>
    /\ UNCHANGED cacheVars

\* DescribeRegions returns: the session's region is restored from the local
\* currentRegion, which ends with the call; an output is
\* stored under the caller's key with the time of the answer, an error is
\* returned and nothing is stored. The deferred Unlock runs.
DescribeRegionsReturns(v, ok) ==
    /\ rv.pc[v] = "fetching"
    /\ LET key == CacheKey(rv.session[v])
           regionData == RegionDataOf(regionCache, key)
           output == DirectoryOf(rv.session[v].AccessKeyID)
       IN IF ok
          THEN /\ regionCache' = StoreRegions(regionCache, key, regionData, output, now)
               /\ rv' = [rv EXCEPT !.pc[v] = "done",
                                    !.mutex = NoWorker,
                                    !.session[v] = RestoreRegion(rv.session[v],
                                                                 rv.currentRegion[v]),
                                    !.currentRegion[v] = "",
                                    !.ret[v] = [path |-> "fetched", output |-> output,
                                                err |-> Nil]]
          ELSE /\ regionCache' = FailRegions(regionCache, key, regionData,
                                              Err("DescribeRegions", "RequestError"))
               /\ rv' = [rv EXCEPT !.pc[v] = "done",
                                    !.mutex = NoWorker,
                                    !.session[v] = RestoreRegion(rv.session[v],
                                                                 rv.currentRegion[v]),
                                    !.currentRegion[v] = "",
                                    !.ret[v] = [path |-> "failed", output |-> NoOutput,
                                                err |-> Err("DescribeRegions",
                                                            "RequestError")]]
    /\ UNCHANGED <<md, world, rr, rec, wr, ses>>
    /\ UNCHANGED cacheVars

\* Time passes for the validators, a quarter of an hour at a time: a
\* validator that Lock() would let through does not stay outside that long.
DirAdvance ==
    /\ now < MaxDirTime
    /\ rv.mutex # NoWorker \/ \A v \in Validators : rv.pc[v] # "lock"
    /\ now' = now + DirTick
    /\ UNCHANGED <<instanceTypes, refreshLock, pc, req, fetch, result, path, seen>>
    /\ UNCHANGED k8sVars

\* NewRegionCache(): an empty map, the mutex free, no validator inside.
DirectoryInit ==
    /\ CacheFresh(CacheRegions)
    /\ md = Pending
    /\ world = Pending
    /\ rr = Pending
    /\ regionCache = [k \in {} |-> NoRegionData]
    /\ rec = Pending
    /\ wr = Pending
    /\ ses = Pending
    /\ rv = [mutex |-> NoWorker,
             pc |-> [v \in Validators |-> "idle"],
             session |-> [v \in Validators |-> ValidatorSession("AKIDA")],
             currentRegion |-> [v \in Validators |-> ""],
             ret |-> [v \in Validators |-> NoReturn]]

DirectoryNext ==
    \/ \E v \in Validators, key \in Identities, credentials \in {"ok", "error"} :
          CallGetCachedDescribeRegions(v, key, credentials)
    \/ \E v \in Validators : LockRegionCache(v)
    \/ \E v \in Validators, ok \in BOOLEAN : DescribeRegionsReturns(v, ok)
    \/ DirAdvance

SpecDirectory == DirectoryInit /\ [][DirectoryNext]_vars

\* An older listing: it still has eu-old-1, and nobody has opted in to
\* ap-future-1 yet.
StaleDirectory ==
    <<[RegionName |-> "us-east-1", OptInStatus |-> "opt-in-not-required"],
      [RegionName |-> "eu-old-1", OptInStatus |-> "opted-in"],
      [RegionName |-> "ap-future-1", OptInStatus |-> "not-opted-in"]>>

\* An entry whose 30 minutes are over at time 0.
ExpiredRegionData ==
    [err |-> Nil, describeRegionsOutput |-> StaleDirectory,
     lastUpdated |-> 0 - awsRegionsCacheExpirationDuration]

\* Every validator is inside GetCachedDescribeRegions, about to take the
\* mutex, and no identity has a valid entry: it has none or an expired one.
DirectoryFlightInit ==
    /\ CacheFresh(CacheRegions)
    /\ md = Pending
    /\ world = Pending
    /\ rr = Pending
    /\ \E expired \in SUBSET Identities :
          regionCache = [k \in expired |-> ExpiredRegionData]
    /\ rec = Pending
    /\ wr = Pending
    /\ ses = Pending
    /\ \E keys \in [Validators -> Identities] :
          rv = [mutex |-> NoWorker,
                pc |-> [v \in Validators |-> "lock"],
                session |-> [v \in Validators |-> ValidatorSession(keys[v])],
                currentRegion |-> [v \in Validators |-> ""],
                ret |-> [v \in Validators |-> NoReturn]]

DirectoryFlightNext ==
    \/ \E v \in Validators : LockRegionCache(v)
    \/ \E v \in Validators, ok \in BOOLEAN : DescribeRegionsReturns(v, ok)
    \/ DirAdvance

SpecDirectoryFlight == DirectoryFlightInit /\ [][DirectoryFlightNext]_vars

---------------------------------------------------------------------------
(* validateRegion on a region directory *)

MaxRegions == 2

\* ec2.Region entries DescribeRegions(AllRegions) can list.
ListedRegions ==
    [RegionName : {"us-east-1", "ap-future-1", "eu-south-9"},
     OptInStatus : {"opt-in-not-required", "opted-in", "not-opted-in"}]

\* A directory lists a region once.
UniqueNames(directory) ==
    \A i, j \in 1..Len(directory) :
        directory[i].RegionName = directory[j].RegionName => i = j

RegionDirectories ==
    {d \in SeqsUpTo(ListedRegions, MaxRegions) : UniqueNames(d)}

ValidateInit ==
    /\ CacheFresh(CacheRegions)
    /\ md = Pending
    /\ world = Pending
    /\ rr = Pending
    /\ regionCache = Pending
    /\ rec = Pending
    /\ wr = Pending
    /\ ses = Pending
    /\ \E directory \in RegionDirectories, region \in {"us-east-1", "ap-future-1"} :
          rv = [describeRegionsOutput |-> directory, region |-> region,
                ret |-> Pending]

\* validateRegion(describeRegionsOutput, region) as NewValidatedClient calls it
ValidateRegionCall ==
    /\ rv.ret = Pending
    /\ rv' = [rv EXCEPT !.ret = validateRegion(rv.describeRegionsOutput, rv.region)]
    /\ UNCHANGED <<md, world, rr, regionCache, rec, wr, ses>>
    /\ UNCHANGED cacheVars

ValidateNext == ValidateRegionCall

SpecValidate == ValidateInit /\ [][ValidateNext]_vars

---------------------------------------------------------------------------
(* One bulk fetch of the instance-type cache, from its first request on *)

\* The snapshot of a listing, published so long ago that it has expired.
ExpiredSnapshot(cat) ==
    [entries |-> FetchAll(cat, 1, EmptyEntries, 0).entries,
     fetchedAt |-> 0 - (refreshInterval + Tick),
     cat |-> cat]

\* Worker 1 holds the refresh mutex of the region, which has no snapshot or
\* an expired one, and is about to send its first DescribeInstanceTypes.
FetchInit ==
    /\ now = 0
    /\ \E old \in {NoSnapshot} \cup {ExpiredSnapshot(cat) : cat \in Catalogs} :
          instanceTypes = [r \in CacheRegions |-> old]
    /\ refreshLock = [r \in CacheRegions |-> 1]
    /\ pc = [w \in Workers |-> IF w = 1 THEN "fetching" ELSE "idle"]
    /\ \E region \in CacheRegions, typeName \in QueryNames :
          req = [w \in Workers |->
                    IF w = 1 THEN [region |-> region, typeName |-> typeName]
                    ELSE NoRequest]
    /\ \E cat \in Catalogs :
          fetch = [w \in Workers |->
                      IF w = 1 THEN [cat |-> cat, token |-> 1, acc |-> EmptyEntries]
                      ELSE NoFetch]
    /\ result = [w \in Workers |-> NoResult]
    /\ path = [w \in Workers |-> "none"]
    /\ seen = [w \in Workers |-> NoSnapshot]
    /\ K8sParked

FetchNext ==
    \/ \E w \in Workers : FetchPage(w)
    \/ \E w \in Workers : FetchFail(w)
    \/ Advance

\* The fetch keeps running: its pending DescribeInstanceTypes call returns,
\* with a page or with an error.
SpecFetch ==
    /\ FetchInit
    /\ [][FetchNext]_vars
    /\ \A w \in Workers : WF_vars(FetchPage(w) \/ FetchFail(w))

---------------------------------------------------------------------------
(* The references of a MachineDeployment, across namespaces *)

Namespaces == {"default", "infra"}

\* One template of the same name in each namespace, of different types.
TemplateIn(namespace) ==
    [Kind |-> "AWSMachineTemplate", Name |-> "test-aws-template",
     Namespace |-> namespace,
     InstanceType |-> IF namespace = "default" THEN "a1.2xlarge" ELSE "p2.16xlarge"]

\* One AWSCluster of the same name in each namespace, of different regions.
AWSClusterIn(namespace) ==
    [Kind |-> "AWSCluster", Name |-> "test-cluster-aws", Namespace |-> namespace,
     Region |-> IF namespace = "default" THEN "us-east-1" ELSE "eu-west-1"]

\* A MachineDeployment in mdNamespace with its Cluster beside it; the two
\* references name a namespace or leave it empty.
RefsInit ==
    /\ CacheFresh(CacheRegions)
    /\ \E mdNamespace \in Namespaces, templateNamespace \in Namespaces \cup {""},
          clusterRefNamespace \in Namespaces \cup {""},
          templatesIn \in SUBSET Namespaces, awsClustersIn \in SUBSET Namespaces :
          /\ md = [ReconcileMD([TemplateRef EXCEPT !.Namespace = templateNamespace],
                               EmptyMap, 0)
                      EXCEPT !.Namespace = mdNamespace]
          /\ world = [objects |->
                         {[ClusterObj(AWSClusterRef("test-cluster-aws",
                                                    clusterRefNamespace))
                              EXCEPT !.Namespace = mdNamespace]}
                         \cup {TemplateIn(n) : n \in templatesIn}
                         \cup {AWSClusterIn(n) : n \in awsClustersIn},
                      failing |-> {}]
    /\ rr = [template |-> Pending, region |-> Pending]
    /\ regionCache = Pending
    /\ rec = Pending
    /\ wr = Pending
    /\ ses = Pending
    /\ rv = Pending

\* utils.ResolveAWSMachineTemplate(ctx, r.Client, machineDeployment)
ResolveTemplateCall ==
    /\ rr.template = Pending
    /\ rr' = [rr EXCEPT !.template = ResolveAWSMachineTemplate(world, md)]
    /\ UNCHANGED <<md, world, regionCache, rec, wr, ses, rv>>
    /\ UNCHANGED cacheVars

\* utils.ResolveRegion(ctx, r.Client, machineDeployment), whose first step
\* is getRegionFromAWSCluster
ResolveClusterRegionCall ==
    /\ rr.region = Pending
    /\ rr' = [rr EXCEPT !.region = ResolveRegion(world, md)]
    /\ UNCHANGED <<md, world, regionCache, rec, wr, ses, rv>>
    /\ UNCHANGED cacheVars

RefsNext ==
    \/ ResolveTemplateCall
    \/ ResolveClusterRegionCall

SpecRefs == RefsInit /\ [][RefsNext]_vars

---------------------------------------------------------------------------
(* NewValidatedClient on a region, a region cache and the answers of AWS *)

\* The session and its resolver, the credentials and DescribeRegions each
\* work or fail.
ClientAnswers ==
    {[Healthy(d, FakeInstanceTypes) EXCEPT !.session = session,
                                           !.resolver = resolver,
                                           !.credentials = credentials] :
        d \in {NoOutput, RegionsOptedIn, RegionsNotOptedIn},
        session \in {"ok", "error"}, resolver \in {"default", "other"},
        credentials \in {"ok", "error"}}

\* The region cache before the call is empty, or holds for the identity an
\* older listing that is still valid or has expired; the region is one of
\* the SDK's table, one that only the directories list, one that only the
\* older listing has, or one that nobody lists.
ClientInit ==
    /\ CacheFresh(CacheRegions)
    /\ md = Pending
    /\ world = Pending
    /\ rr = Pending
    /\ regionCache \in
          {[k \in {} |-> NoRegionData],
           [k \in {"AKIDEXAMPLE"} |-> [ExpiredRegionData EXCEPT !.lastUpdated = 0]],
           [k \in {"AKIDEXAMPLE"} |-> ExpiredRegionData]}
    /\ rec = Pending
    /\ wr = Pending
    /\ ses = Pending
    /\ \E aws \in ClientAnswers,
          region \in {"us-east-1", "ap-future-1", "eu-old-1", "eu-south-9"} :
          rv = [aws |-> aws, region |-> region, ret |-> Pending]

\* r.AwsClientBuilder(r.Client, "", namespace, region, r.RegionCache)
CallNewValidatedClient ==
    /\ rv.ret = Pending
    /\ \E built \in {NewValidatedClient(regionCache, rv.aws, rv.region, now)} :
          /\ rv' = [rv EXCEPT !.ret = built]
          /\ regionCache' = built.data
    /\ UNCHANGED <<md, world, rr, rec, wr, ses>>
    /\ UNCHANGED cacheVars

SpecClient == ClientInit /\ [][CallNewValidatedClient]_vars

---------------------------------------------------------------------------
(* Properties of the instance-type cache *)

RECURSIVE Flatten(_)
Flatten(pages) == IF pages = <<>> THEN <<>> ELSE Head(pages) \o Flatten(Tail(pages))

\* The instance types of a whole DescribeInstanceTypes listing.
InfosOf(cat) == {Flatten(cat)[i] : i \in 1..Len(Flatten(cat))}
NamesOf(cat) == {info.InstanceType : info \in InfosOf(cat)}
InfoOf(cat, typeName) == CHOOSE info \in InfosOf(cat) : info.InstanceType = typeName

\* What the tests expect of the fake client's listing.
TestedDescriptors ==
    [n \in {"a1.2xlarge", "p2.16xlarge"} |->
        IF n = "a1.2xlarge"
        THEN [VCPU |-> 8, MemoryMb |-> 16384, GPU |-> 0, CPUArchitecture |-> "amd64"]
        ELSE [VCPU |-> 64, MemoryMb |-> 749568, GPU |-> 16, CPUArchitecture |-> "amd64"]]

DescribesInfo(it, info) ==
    /\ it.VCPU = info.DefaultVCpus
    /\ it.MemoryMb = info.SizeInMiB
    /\ it.GPU = SumSeq(info.Gpus)
    /\ it.CPUArchitecture \in {"amd64", "arm64"}
    /\ (info.SupportedArchitectures # <<>> /\ info.SupportedArchitectures[1] = "arm64")
          <=> it.CPUArchitecture = "arm64"

\* C1: a call answered from a snapshot returns, for a name the snapshot's
\* DescribeInstanceTypes listing contains, the descriptor of that listing's
\* entry (vCPU, memory, GPU count, normalized architecture), and for a name
\* the listing does not contain the unknown-instance-type answer.
C1_CacheCorrectness ==
    \A w \in Workers :
        (pc[w] = "done" /\ seen[w] # NoSnapshot) =>
            LET cat == seen[w].cat
                n == req[w].typeName
            IN IF n \in NamesOf(cat)
               THEN /\ result[w].kind = "ok"
                    /\ DescribesInfo(result[w].instanceType, InfoOf(cat, n))
                    /\ (cat = FakeInstanceTypes /\ n \in DOMAIN TestedDescriptors)
                          => result[w].instanceType = TestedDescriptors[n]
               ELSE result[w].kind = "unknown"

\* A call got a descriptor from the second page of a listing and another name
\* was answered unknown.
C1_Witness ==
    \E w, v \in Workers :
        /\ pc[w] = "done" /\ result[w].kind = "ok"
        /\ req[w].typeName = "g5.48xlarge" /\ result[w].instanceType.GPU = 8
        /\ pc[v] = "done" /\ result[v].kind = "unknown" /\ seen[v] # NoSnapshot

Age(region) == now - instanceTypes[region].fetchedAt

Fetching(region) == {w \in Workers : pc[w] = "fetching" /\ req[w].region = region}

\* C2: a call that finds the region's snapshot younger than 24 hours starts
\* no bulk fetch, neither when it is issued nor when it gets the refresh
\* mutex; a call that decides on a snapshot older than 24 hours starts a
\* bulk fetch, the only one running for the region.
C2_TTL ==
    [][\A w \in Workers :
        /\ \A region \in CacheRegions, n \in QueryNames :
              (Call(w, region, n) /\ HasSnapshot(region)
                  /\ Age(region) < refreshInterval)
                 => /\ pc'[w] = "done"
                    /\ \A v \in Workers : pc'[v] = "fetching" => pc[v] = "fetching"
        /\ (Acquire(w) /\ HasSnapshot(req[w].region)
                /\ Age(req[w].region) < refreshInterval)
              => pc'[w] = "done"
        /\ (Acquire(w) /\ HasSnapshot(req[w].region)
                /\ Age(req[w].region) > refreshInterval)
              => /\ pc'[w] = "fetching"
                 /\ fetch'[w].token = 1
                 /\ Fetching(req[w].region)' = {w}
        /\ (pc[w] # "fetching" /\ pc'[w] = "fetching")
              => ~(HasSnapshot(req'[w].region) /\ Age(req'[w].region) < refreshInterval)
      ]_vars

\* One call was answered from a snapshot younger than 24 hours without a
\* fetch; later another refreshes the same snapshot, now older than 24 hours.
C2_Witness ==
    \E w, v \in Workers :
        /\ pc[w] = "fetching" /\ HasSnapshot(req[w].region)
        /\ Age(req[w].region) > refreshInterval
        /\ pc[v] = "done" /\ path[v] = "hit" /\ req[v].region = req[w].region

AllDone == \A w \in Workers : pc[w] = "done"

FetchedBy(w) == path[w] \in {"refreshed", "stale", "error"}

SingleFlight ==
    /\ Cardinality({w \in Workers : FetchedBy(w)}) = 1
    /\ \A w, v \in Workers : seen[w] = seen[v]
    /\ \A w, v \in Workers : req[w].typeName = req[v].typeName => result[w] = result[v]

CompleteSnapshot(snapshot) ==
    /\ snapshot.cat \in Catalogs
    /\ DOMAIN snapshot.entries = NamesOf(snapshot.cat)
    /\ \A n \in DOMAIN snapshot.entries :
          DescribesInfo(snapshot.entries[n], InfoOf(snapshot.cat, n))

\* C4: the snapshot a reader can observe is always the result of one whole
\* listing; it changes only in the step that ends a successful fetch, and a
\* step that fetches one more page or fails leaves it as it was.
C4_NoPartialSnapshot ==
    /\ [](\A region \in CacheRegions :
             HasSnapshot(region) => CompleteSnapshot(instanceTypes[region]))
    /\ [][/\ \A w \in Workers :
                (FetchFail(w) \/ (pc[w] = "fetching" /\ pc'[w] = "fetching"))
                   => instanceTypes' = instanceTypes
          /\ \A region \in CacheRegions :
                instanceTypes'[region] # instanceTypes[region]
                   => \E w \in Workers :
                         /\ pc[w] = "fetching" /\ req[w].region = region
                         /\ path'[w] = "refreshed"
                         /\ instanceTypes'[region].cat = fetch[w].cat
         ]_vars

\* A fetch has gathered the first page of a listing while the region still
\* shows the whole snapshot of another listing.
C4_Witness ==
    \E w \in Workers :
        /\ pc[w] = "fetching"
        /\ fetch[w].token > 1
        /\ HasSnapshot(req[w].region)
        /\ instanceTypes[req[w].region].cat # fetch[w].cat

\* C5: when a bulk fetch fails, the region's snapshot is left as it was; with
\* a previous snapshot the caller is answered from it, and the fetch error is
\* returned only when there is none.
C5_FailedRefreshKeepsSnapshot ==
    /\ [][\A w \in Workers :
             FetchFail(w) =>
                /\ instanceTypes' = instanceTypes
                /\ IF HasSnapshot(req[w].region)
                   THEN /\ result'[w] = Lookup(instanceTypes[req[w].region], req[w].typeName)
                        /\ result'[w].kind \in {"ok", "unknown"}
                   ELSE result'[w].kind = "fetchError"
         ]_vars
    /\ [](\A w \in Workers : result[w].kind = "fetchError" => seen[w] = NoSnapshot)

\* A refresh of an expired snapshot failed and the caller got the old
\* descriptor.
C5_Witness ==
    \E w \in Workers :
        /\ pc[w] = "done" /\ path[w] = "stale"
        /\ result[w].kind = "ok"
        /\ HasSnapshot(req[w].region)
        /\ Age(req[w].region) > refreshInterval


\* C27: a successful refresh of a region that had a snapshot publishes
\* exactly the instance types of the listing just fetched, each described
\* from that listing; a name of the previous snapshot that the listing lacks
\* is unknown from then on, and the refreshing caller is told so.
C27_RefreshReplaces ==
    [][\A region \in CacheRegions :
          (HasSnapshot(region) /\ instanceTypes'[region] # instanceTypes[region])
             => LET w == refreshLock[region]
                    old == instanceTypes[region]
                    new == instanceTypes'[region]
                    listing == fetch[w].cat
                IN /\ w \in Workers
                   /\ DOMAIN new.entries = NamesOf(listing)
                   /\ \A n \in DOMAIN new.entries :
                         DescribesInfo(new.entries[n], InfoOf(listing, n))
                   /\ \A n \in DOMAIN old.entries \ NamesOf(listing) :
                         /\ Lookup(new, n).kind = "unknown"
                         /\ req[w].typeName = n => result'[w].kind = "unknown"]_vars

\* p2.16xlarge was answered from the first snapshot; the refresh fetched a
\* listing without it and its caller was answered unknown.
C27_Witness ==
    \E v, w \in Workers, region \in CacheRegions :
        /\ seen[v] # NoSnapshot
        /\ seen[v].cat = FakeInstanceTypes
        /\ req[v].typeName = "p2.16xlarge"
        /\ result[v].kind = "ok"
        /\ path[w] = "refreshed"
        /\ req[w] = [region |-> region, typeName |-> "p2.16xlarge"]
        /\ result[w].kind = "unknown"
        /\ instanceTypes[region].cat = PagedInstanceTypes
        /\ "p2.16xlarge" \notin DOMAIN instanceTypes[region].entries

\* The answer to the request a fetching worker has pending.
PendingPage(w) == DescribeInstanceTypes(fetch[w].cat, fetch[w].token)

\* C28: a bulk fetch that received a page with a continuation token asks for
\* the page of that token and publishes nothing; it publishes when a page
\* comes without a token, and the set it publishes holds the instance types
\* of every page of the listing; every bulk fetch comes to an end.
C28_PaginationComplete ==
    /\ [][\A w \in Workers :
             (pc[w] = "fetching" /\ ~FetchFail(w) /\ fetch'[w] # fetch[w])
                => IF PendingPage(w).NextToken # 0
                   THEN /\ pc'[w] = "fetching"
                        /\ fetch'[w].token = PendingPage(w).NextToken
                        /\ instanceTypes' = instanceTypes
                   ELSE /\ path'[w] = "refreshed"
                        /\ DOMAIN instanceTypes'[req[w].region].entries
                              = UNION {{info.InstanceType :
                                           info \in {fetch[w].cat[p][i] :
                                                        i \in 1..Len(fetch[w].cat[p])}} :
                                       p \in 1..Len(fetch[w].cat)}
         ]_vars
    /\ \A w \in Workers : (pc[w] = "fetching") ~> (pc[w] # "fetching")

\* A fetch of the two-page listing was published with a type of each page.
C28_Witness ==
    \E w \in Workers :
        /\ path[w] = "refreshed"
        /\ seen[w].cat = PagedInstanceTypes
        /\ instanceTypes[req[w].region] = seen[w]
        /\ {"a1.2xlarge", "g5.48xlarge"} \subseteq DOMAIN seen[w].entries

---------------------------------------------------------------------------
(* Properties of the region resolver *)

\* The objects the chain Cluster -> infrastructureRef -> AWSCluster leads to,
\* read off the store without running the resolver.
ChainClusters ==
    IF md.ClusterName = "" \/ "Cluster" \in world.failing THEN {}
    ELSE {c \in world.objects :
             c.Kind = "Cluster" /\ c.Name = md.ClusterName /\ c.Namespace = md.Namespace}

ChainAWSClusters ==
    IF "AWSCluster" \in world.failing THEN {}
    ELSE {a \in world.objects :
             /\ a.Kind = "AWSCluster"
             /\ \E c \in ChainClusters :
                   /\ c.InfrastructureRef # NilRef
                   /\ c.InfrastructureRef.Name # ""
                   /\ a.Name = c.InfrastructureRef.Name
                   /\ a.Namespace = IF c.InfrastructureRef.Namespace = ""
                                    THEN c.Namespace
                                    ELSE c.InfrastructureRef.Namespace}

ChainRegions == {a.Region : a \in ChainAWSClusters} \ {""}

\* Why the chain yields no region ("none" when it yields one).
FailureMode ==
    IF md.ClusterName = "" THEN "empty clusterName"
    ELSE IF "Cluster" \in world.failing THEN "Cluster fetch error"
    ELSE IF ChainClusters = {} THEN "Cluster not found"
    ELSE IF \E c \in ChainClusters : c.InfrastructureRef = NilRef
    THEN "nil infrastructureRef"
    ELSE IF \E c \in ChainClusters : c.InfrastructureRef.Name = ""
    THEN "empty infrastructureRef name"
    ELSE IF "AWSCluster" \in world.failing THEN "AWSCluster fetch error"
    ELSE IF ChainAWSClusters = {} THEN "AWSCluster not found"
    ELSE IF ChainRegions = {} THEN "empty region"
    ELSE "none"

FailureModes ==
    {"empty clusterName", "Cluster fetch error", "Cluster not found",
     "nil infrastructureRef", "empty infrastructureRef name",
     "AWSCluster fetch error", "AWSCluster not found", "empty region"}

HasRegionAnnotation ==
    /\ RegionAnnotation \in DOMAIN md.Annotations
    /\ md.Annotations[RegionAnnotation] # ""

\* C8: when the chain Cluster -> AWSCluster yields a non-empty region,
\* ResolveRegion returns that region with a nil error, also when the region
\* annotation is present and names another region.
C8_ChainRegionWins ==
    (rr # Pending /\ ChainRegions # {})
        => /\ rr.err = Nil
           /\ rr.region \in ChainRegions
           /\ Cardinality(ChainRegions) = 1

C8_Witness ==
    /\ rr # Pending
    /\ ChainRegions # {}
    /\ HasRegionAnnotation
    /\ md.Annotations[RegionAnnotation] \notin ChainRegions
    /\ rr.region \in ChainRegions

\* C9: in each failure mode of the chain (empty clusterName, Cluster fetch
\* error or not found, nil infrastructureRef, empty infrastructureRef name,
\* AWSCluster fetch error or not found, empty region) ResolveRegion returns
\* the value of the region annotation, with a nil error, when the annotation
\* is present and non-empty.
C9_AnnotationFallback ==
    /\ FailureMode \in FailureModes \cup {"none"}
    /\ (FailureMode = "none") <=> (ChainRegions # {})
    /\ (rr # Pending /\ FailureMode \in FailureModes /\ HasRegionAnnotation)
          => rr = [region |-> md.Annotations[RegionAnnotation], err |-> Nil]

C9_Witness ==
    /\ rr # Pending
    /\ FailureMode = "AWSCluster fetch error"
    /\ HasRegionAnnotation
    /\ rr.region = "us-west-2"

\* C10: ResolveRegion returns an error exactly when the chain yields no
\* region and the annotation is absent or empty; it never returns an empty
\* region with a nil error.
C10_ErrorExactlyWhenNoRegion ==
    rr # Pending
        => /\ (rr.err # Nil) <=> (ChainRegions = {} /\ ~HasRegionAnnotation)
           /\ ~(rr.region = "" /\ rr.err = Nil)

C10_Witness ==
    /\ rr # Pending
    /\ rr.err # Nil
    /\ FailureMode = "empty region"
    /\ RegionAnnotation \in DOMAIN md.Annotations

---------------------------------------------------------------------------
(* Properties of the reconciler *)

\* The last Reconcile got as far as calling reconcile.
Ran == rec # Pending /\ rec.reconcile # NotRun

FailedUpdateWarning(events) ==
    \E i \in 1..Len(events) :
        events[i].type = "Warning" /\ events[i].reason = "FailedUpdate"

OwnedKeys == {cpuKey, memoryKey, gpuKey, labelsKey}

\* C6: when the instance-type cache reports the requested name unknown,
\* reconcile returns no error and no requeue, emits a FailedUpdate warning
\* event, and the annotation map of the MachineDeployment is what it was
\* before the call: nothing removed, nothing changed, no owned key added.
C6_UnknownTypeLeavesAnnotations ==
    [][(rec' # Pending /\ rec'.reconcile # NotRun /\ rec'.reconcile.lookup = "unknown")
          => /\ rec'.reconcile.err = Nil
             /\ ~rec'.reconcile.requeue
             /\ FailedUpdateWarning(rec'.reconcile.events)
             /\ rec'.reconcile.annotations = md.Annotations
             /\ md'.Annotations = md.Annotations
             /\ \A k \in OwnedKeys :
                   k \in DOMAIN md'.Annotations => k \in DOMAIN md.Annotations]_vars

\* The type was annotated from an earlier snapshot; the refreshed snapshot
\* no longer lists it and the annotations of the earlier call are still there.
C6_Witness ==
    /\ Ran
    /\ rec.reconcile.lookup = "unknown"
    /\ rec.reconcile.steps[Len(rec.reconcile.steps)] = "GetInstanceType"
    /\ \E t \in world.objects :
          /\ t.Kind = "AWSMachineTemplate"
          /\ t.InstanceType = "p2.16xlarge"
          /\ \E region \in ReconcileRegions :
                /\ HasSnapshot(region)
                /\ t.InstanceType \notin DOMAIN instanceTypes[region].entries
    /\ cpuKey \in DOMAIN md.Annotations
    /\ md.Annotations[cpuKey] = "64"
    /\ "owner" \in DOMAIN md.Annotations

\* C7: when the bulk fetch of the instance types or the region list fails
\* during a reconciliation, reconcile returns a non-nil error.
C7_TransientErrorsSurfaced ==
    (Ran /\ (rec.reconcile.aws.fetchFailed \/ rec.reconcile.aws.regionListFailed))
        => rec.reconcile.err # Nil

\* A failed region list does come back as an error of reconcile and of
\* Reconcile ("error creating aws client").
RegionListErrorSurfaced ==
    (Ran /\ rec.reconcile.aws.regionListFailed)
        => /\ rec.reconcile.err # Nil
           /\ rec.err # Nil

\* The first bulk fetch of a region fails, the cache has nothing to answer
\* with, and reconcile and Reconcile both return a nil error.
C7_Witness ==
    /\ Ran
    /\ rec.reconcile.aws.fetchFailed
    /\ rec.reconcile.lookup = "fetchError"
    /\ \A region \in ReconcileRegions : ~HasSnapshot(region)
    /\ rec.reconcile.err = Nil
    /\ rec.err = Nil
    /\ ~rec.requeue

---------------------------------------------------------------------------
(* Properties of the annotation step *)

Written == wr # Pending /\ wr.writes >= 1

\* The pieces of the original labels annotation that are caller-owned pairs.
CallerPieces ==
    {i \in 1..Len(wr.pieces) : wr.pieces[i].pair /\ wr.pieces[i].key # archLabelKey}

CallerPairs == {wr.pieces[i].key \o "=" \o wr.pieces[i].value : i \in CallerPieces}

StaleArchitecture ==
    \E i \in 1..Len(wr.pieces) :
        /\ wr.pieces[i].pair
        /\ wr.pieces[i].key = archLabelKey
        /\ wr.pieces[i].value # InstanceType(wr.info).CPUArchitecture

DistinctKeys ==
    \A i, j \in CallerPieces : i # j => wr.pieces[i].key # wr.pieces[j].key

\* The entries of the labels annotation as it is now.
LabelList == Split(md.Annotations[labelsKey], ",")

LabelSet == {LabelList[i] : i \in 1..Len(LabelList)}

\* C11: a second run of the annotation step with the same descriptor, on the
\* output of the first, leaves the annotation map as the first run left it.
C11_WriterIdempotent ==
    (wr # Pending /\ wr.writes >= 2) => md.Annotations = wr.previous

C11_Witness ==
    /\ wr # Pending
    /\ wr.writes = 2
    /\ Cardinality(CallerPairs) >= 2
    /\ StaleArchitecture
    /\ md.Annotations = wr.previous
    /\ md.Annotations # wr.original

\* C12 as stated: whatever caller-owned pairs the labels annotation held,
\* the label list afterwards is those pairs plus the architecture pair.
C12_MergePreservesEveryPair ==
    Written
        => LabelSet = CallerPairs \cup
                      {archLabelKey \o "=" \o InstanceType(wr.info).CPUArchitecture}

\* C12: when the caller-owned pairs of the labels annotation have pairwise
\* distinct keys, the label list afterwards holds exactly those pairs and the
\* one architecture pair with the new value, each once.
C12_MergePreservation ==
    (Written /\ DistinctKeys)
        => /\ LabelSet = CallerPairs \cup
                         {archLabelKey \o "=" \o InstanceType(wr.info).CPUArchitecture}
           /\ Len(LabelList) = Cardinality(CallerPieces) + 1

C12_Witness ==
    /\ Written
    /\ DistinctKeys
    /\ Cardinality(CallerPieces) = 2
    /\ StaleArchitecture
    /\ "team=x=y" \in LabelSet
    /\ "kubernetes.io/arch=amd64" \in LabelSet

Digits == {"0", "1", "2", "3", "4", "5", "6", "7", "8", "9"}

\* The number a string of decimal digits stands for.
RECURSIVE DecimalValue(_)
DecimalValue(s) ==
    IF s = "" THEN 0
    ELSE 10 * DecimalValue(SubSeq(s, 1, Len(s) - 1))
         + (CHOOSE d \in 0..9 : Char("0123456789", d + 1) = Char(s, Len(s)))

\* s is the base-10 string of the natural number n.
IsDecimalOf(s, n) ==
    /\ Len(s) >= 1
    /\ \A i \in 1..Len(s) : Char(s, i) \in Digits
    /\ Len(s) > 1 => Char(s, 1) # "0"
    /\ DecimalValue(s) = n

\* C13: after the annotation step the vCPU, memoryMb and GPU annotations are
\* the base-10 strings of the descriptor's values, whatever they held before.
C13_NumericOverwritten ==
    Written
        => /\ IsDecimalOf(md.Annotations[cpuKey], wr.info.DefaultVCpus)
           /\ IsDecimalOf(md.Annotations[memoryKey], wr.info.SizeInMiB)
           /\ IsDecimalOf(md.Annotations[gpuKey], SumSeq(wr.info.Gpus))

C13_Witness ==
    /\ Written
    /\ cpuKey \in DOMAIN wr.original
    /\ wr.original[cpuKey] = "2"
    /\ wr.original[gpuKey] = "none"
    /\ md.Annotations[cpuKey] = "64"
    /\ md.Annotations[memoryKey] = "749568"
    /\ md.Annotations[gpuKey] = "16"

\* C14: the annotation step changes the four owned keys only: every other
\* key of the MachineDeployment is still there with its value, and no other
\* key has appeared.
C14_UnrelatedPreserved ==
    Written
        => /\ DOMAIN md.Annotations = DOMAIN wr.original \cup OwnedKeys
           /\ \A k \in DOMAIN wr.original \ OwnedKeys :
                 md.Annotations[k] = wr.original[k]

C14_Witness ==
    /\ Written
    /\ "existing" \in DOMAIN wr.original
    /\ md.Annotations["existing"] = "annotation"
    /\ md.Annotations["annother"] = "existingAnnotation"
    /\ md.Annotations[cpuKey] = "8"
    /\ labelsKey \notin DOMAIN wr.original

\* The architecture identifier the API lists first, "" when it lists none.
ListedArchitecture ==
    IF wr.info.SupportedArchitectures = <<>> THEN ""
    ELSE wr.info.SupportedArchitectures[1]

\* C15: the architecture of a descriptor is amd64 for x86_64, arm64 for
\* arm64 and amd64 for every other identifier, empty and missing included:
\* never a third value.
C15_ArchitectureNormalized ==
    wr # Pending
        => /\ InstanceType(wr.info).CPUArchitecture \in {"amd64", "arm64"}
           /\ (ListedArchitecture = "x86_64")
                 => InstanceType(wr.info).CPUArchitecture = "amd64"
           /\ (ListedArchitecture = "arm64")
                 => InstanceType(wr.info).CPUArchitecture = "arm64"
           /\ (ListedArchitecture \notin {"x86_64", "arm64"})
                 => InstanceType(wr.info).CPUArchitecture = "amd64"
           /\ Written
                 => \E a \in {"amd64", "arm64"} :
                       /\ archLabelKey \o "=" \o a \in LabelSet
                       /\ a = InstanceType(wr.info).CPUArchitecture

C15_Witness ==
    /\ Written
    /\ ListedArchitecture = "wrong-arch"
    /\ "kubernetes.io/arch=amd64" \in LabelSet

---------------------------------------------------------------------------
(* Properties of the template steps of reconcile *)

ValidTemplateRef ==
    /\ md.InfrastructureRef.Name # ""
    /\ md.InfrastructureRef.Kind = "AWSMachineTemplate"

\* The AWSMachineTemplate objects the reference of md names.
ReferencedTemplates ==
    {t \in world.objects :
        /\ t.Kind = "AWSMachineTemplate"
        /\ t.Name = md.InfrastructureRef.Name
        /\ t.Namespace = IF md.InfrastructureRef.Namespace = "" THEN md.Namespace
                         ELSE md.InfrastructureRef.Namespace}

\* C16: when the infrastructureRef of the deployment has a kind other than
\* AWSMachineTemplate, or an empty name, ResolveAWSMachineTemplate returns an
\* error without fetching any object, and reconcile returns that error,
\* calls nothing else and leaves the annotations as they were.
C16_TemplateKindMismatch ==
    [][(Ran' /\ ~ValidTemplateRef)
          => /\ rec'.reconcile.err # Nil
             /\ rec'.reconcile.err.what \in {"infrastructureRef.name is empty",
                                             "expected AWSMachineTemplate"}
             /\ (rec'.reconcile.err.what = "infrastructureRef.name is empty")
                   <=> (md.InfrastructureRef.Name = "")
             /\ rec'.reconcile.gets = <<>>
             /\ rec'.reconcile.steps = <<"ResolveAWSMachineTemplate">>
             /\ rec'.reconcile.aws = NoAWSCalls
             /\ rec'.reconcile.annotations = md.Annotations
             /\ md'.Annotations = md.Annotations]_vars

C16_Witness ==
    /\ Ran
    /\ md.InfrastructureRef.Kind = "DockerMachineTemplate"
    /\ \E t \in world.objects : t.Kind = "AWSMachineTemplate" /\ t.InstanceType = "a1.2xlarge"
    /\ rec.reconcile.err.what = "expected AWSMachineTemplate"
    /\ rec.err = rec.reconcile.err
    /\ md.Annotations = OwnerAnnotations

\* C17: when the fetched template has an empty instanceType, reconcile
\* returns the error of ExtractInstanceType, which is not a not-found error,
\* fetches nothing more and leaves the annotations as they were; when the
\* template is missing, the error returned is still a not-found error.
C17_EmptyInstanceType ==
    [][(Ran' /\ ValidTemplateRef /\ "AWSMachineTemplate" \notin world.failing)
          => /\ (\E t \in ReferencedTemplates : t.InstanceType = "")
                   => /\ rec'.reconcile.err # Nil
                      /\ rec'.reconcile.err.what = "instanceType is empty in AWSMachineTemplate"
                      /\ rec'.reconcile.err.is # "NotFound"
                      /\ rec'.reconcile.aws = NoAWSCalls
                      /\ rec'.reconcile.annotations = md.Annotations
                      /\ md'.Annotations = md.Annotations
             /\ (ReferencedTemplates = {})
                   => /\ rec'.reconcile.err # Nil
                      /\ rec'.reconcile.err.what = "failed to fetch AWSMachineTemplate"
                      /\ rec'.reconcile.err.is = "NotFound"
                      /\ md'.Annotations = md.Annotations]_vars

C17_Witness ==
    /\ Ran
    /\ ValidTemplateRef
    /\ \E t \in ReferencedTemplates : t.InstanceType = ""
    /\ rec.reconcile.err.what = "instanceType is empty in AWSMachineTemplate"
    /\ rec.reconcile.gets = <<"AWSMachineTemplate">>
    /\ rec.err # Nil
    /\ md.Annotations # EmptyMap

---------------------------------------------------------------------------
(* Properties of newAWSSession *)

Called(i) == ses # Pending /\ ses.ret[i] # Pending

BothSet(env) == env.AWS_ROLE_ARN # "" /\ env.AWS_WEB_IDENTITY_TOKEN_FILE # ""

OneSet(env) == (env.AWS_ROLE_ARN # "") # (env.AWS_WEB_IDENTITY_TOKEN_FILE # "")

C19_FailFastOnPartialConfig ==
    \A i \in 1..2 :
        Called(i)
            => /\ OneSet(ses.env[i]) => ses.ret[i].err # Nil
               /\ (~BothSet(ses.env[i]) /\ ~OneSet(ses.env[i]) /\ ses.credentials = "error")
                     => ses.ret[i].err # Nil

\* Only AWS_ROLE_ARN is set and newAWSSession returns a session.
C19_Witness ==
    /\ Called(1)
    /\ ses.env[1].AWS_ROLE_ARN # ""
    /\ ses.env[1].AWS_WEB_IDENTITY_TOKEN_FILE = ""
    /\ ses.ret[1].err = Nil
    /\ ses.ret[1].mode = "default credential chain"

\* sub occurs in s
Contains(s, sub) ==
    \E i \in 1..(Len(s) - Len(sub) + 1) : SubSeq(s, i, i + Len(sub) - 1) = sub

Logged(i, value) ==
    \E n \in 1..Len(ses.ret[i].log) : Contains(ses.ret[i].log[n], value)

\* C20: the log lines of newAWSSession state the mode and contain neither the
\* value of AWS_ROLE_ARN nor that of AWS_WEB_IDENTITY_TOKEN_FILE; two runs
\* that differ only in those values log the same lines.
C20_NoCredentialValuesInLog ==
    /\ \A i \in 1..2 :
          Called(i)
              => /\ ses.ret[i].log # <<>>
                 /\ ses.env[i].AWS_ROLE_ARN # ""
                       => ~Logged(i, ses.env[i].AWS_ROLE_ARN)
                 /\ ses.env[i].AWS_WEB_IDENTITY_TOKEN_FILE # ""
                       => ~Logged(i, ses.env[i].AWS_WEB_IDENTITY_TOKEN_FILE)
    /\ (Called(1) /\ Called(2)) => ses.ret[1].log = ses.ret[2].log

\* Two IRSA environments with different roles: each run logs its role.
C20_Witness ==
    /\ Called(1)
    /\ Called(2)
    /\ ses.ret[1].mode = "IRSA"
    /\ ses.ret[2].mode = "IRSA"
    /\ ses.env[1].AWS_ROLE_ARN # ses.env[2].AWS_ROLE_ARN
    /\ Logged(1, ses.env[1].AWS_ROLE_ARN)
    /\ ses.ret[1].log # ses.ret[2].log

\* What does hold of the log: the token file path is never in it.
TokenFileNotLogged ==
    \A i \in 1..2 :
        (Called(i) /\ ses.env[i].AWS_WEB_IDENTITY_TOKEN_FILE # "")
            => ~Logged(i, ses.env[i].AWS_WEB_IDENTITY_TOKEN_FILE)

---------------------------------------------------------------------------
(* Properties of NewValidatedClient inside reconcile *)

\* The Reconcile got as far as the AWS client builder.
BuiltClient(r) ==
    r # Pending /\ r.reconcile # NotRun /\ Len(r.reconcile.steps) >= 4

SessionFailed(r) == r.reconcile.err # Nil /\ r.reconcile.err.is = "session"

\* C21: when the region resolves against the endpoint table of the SDK,
\* NewValidatedClient neither calls GetCachedDescribeRegions nor sends a
\* DescribeRegions request, and the region cache stays as it was; the region
\* cache is consulted only, and then always, for a region the table does not
\* know.
C21_LocalFirstValidation ==
    [][BuiltClient(rec')
          => LET region == ResolveRegion(world, md).region
                 calls == rec'.reconcile.aws
             IN /\ region \in SDKRegions
                      => /\ calls.regionCacheCalls = 0
                         /\ calls.describeRegions = 0
                         /\ regionCache' = regionCache
                /\ (calls.regionCacheCalls > 0 \/ calls.describeRegions > 0
                       \/ regionCache' # regionCache)
                      => region \notin SDKRegions
                /\ (region \notin SDKRegions /\ ~SessionFailed(rec'))
                      => calls.regionCacheCalls = 1]_vars

\* A reconcile in a region the SDK knows went through to the annotations
\* while the region cache is still empty.
C21_Witness ==
    /\ BuiltClient(rec)
    /\ ResolveRegion(world, md).region = "us-east-1"
    /\ rec.reconcile.lookup = "ok"
    /\ rec.reconcile.aws.regionCacheCalls = 0
    /\ rec.reconcile.aws.describeInstanceTypes > 0
    /\ DOMAIN regionCache = {}

---------------------------------------------------------------------------
(* Properties of the region directory cache *)

IdentityOf(v) == rv.session[v].AccessKeyID

\* The entry of the validator's identity, its age, and whether it holds a
\* directory.
EntryOf(v) == RegionDataOf(regionCache, IdentityOf(v))
EntryAge(v) == now - EntryOf(v).lastUpdated
HasDirectory(v) == EntryOf(v).describeRegionsOutput # NoOutput

\* Validator v gets past c.mutex.Lock() in this step.
PassesLock(v) == rv.pc[v] = "lock" /\ rv'.pc[v] # "lock"

\* C22: a call that finds a directory of its identity stored less than 30
\* minutes ago returns that directory and sends no request; a call that
\* finds none, or one stored 30 minutes ago or more, sends DescribeRegions;
\* a directory 30 minutes old or older is never returned.
C22_DirectoryTTL ==
    [][\A v \in Validators :
          PassesLock(v)
             => /\ (HasDirectory(v) /\ EntryAge(v) < awsRegionsCacheExpirationDuration)
                      => /\ rv'.pc[v] = "done"
                         /\ rv'.ret[v].path = "cached"
                         /\ rv'.ret[v].output = EntryOf(v).describeRegionsOutput
                         /\ regionCache' = regionCache
                /\ (~HasDirectory(v) \/ EntryAge(v) >= awsRegionsCacheExpirationDuration)
                      => /\ rv'.pc[v] = "fetching"
                         /\ rv'.ret[v].path = "sent"
                         /\ rv'.mutex = v]_vars

\* A directory stored at 0 has answered one validator from the cache, and at
\* 30 another validator of the same identity is fetching it anew.
C22_Witness ==
    \E v, w \in Validators :
        /\ v # w
        /\ IdentityOf(v) = IdentityOf(w)
        /\ rv.ret[v].path = "cached"
        /\ rv.pc[w] = "fetching"
        /\ HasDirectory(w)
        /\ EntryOf(w).lastUpdated = 0
        /\ now = awsRegionsCacheExpirationDuration

AllReturned == \A v \in Validators : rv.pc[v] = "done"

Fetchers == {v \in Validators : rv.ret[v].path \in {"fetched", "failed"}}

\* C23: validators of one identity that are inside GetCachedDescribeRegions
\* together, the identity having no entry or an expired one, and whose
\* DescribeRegions succeeds: one request is sent, whatever the interleaving,
\* and every validator returns the directory that request fetched.
C23_SharedFetch ==
    (/\ AllReturned
     /\ \A v, w \in Validators : IdentityOf(v) = IdentityOf(w)
     /\ \A v \in Validators : rv.ret[v].path \in {"cached", "fetched"})
        => /\ Cardinality(Fetchers) = 1
           /\ \A v \in Validators :
                 /\ rv.ret[v].err = Nil
                 /\ rv.ret[v].output = DirectoryOf(IdentityOf(v))
                 /\ rv.ret[v].output = EntryOf(v).describeRegionsOutput

\* The entry had expired; one validator fetched, every other one waited for
\* the mutex and was answered from the new entry.
C23_Witness ==
    /\ AllReturned
    /\ \A v \in Validators : IdentityOf(v) = "AKIDA"
    /\ \E v \in Validators :
          /\ rv.ret[v].path = "fetched"
          /\ \A w \in Validators \ {v} : rv.ret[w].path = "cached"
    /\ EntryOf(1).describeRegionsOutput = RegionsOptedIn
    /\ EntryOf(1).lastUpdated = DirTick

\* C24: a validator waiting at the mutex whose identity has a directory
\* younger than 30 minutes can take the mutex, whatever another validator
\* is doing.
C24_ReadersNotBlocked ==
    \A v \in Validators :
        (/\ rv.pc[v] = "lock"
         /\ HasDirectory(v)
         /\ EntryAge(v) < awsRegionsCacheExpirationDuration)
            => rv.mutex = NoWorker

\* A validator with a valid entry of its own identity is held at the mutex
\* by the DescribeRegions request of a validator of another identity.
C24_Witness ==
    \E v, w \in Validators :
        /\ rv.pc[v] = "lock"
        /\ HasDirectory(v)
        /\ EntryAge(v) < awsRegionsCacheExpirationDuration
        /\ rv.pc[w] = "fetching"
        /\ rv.mutex = w
        /\ IdentityOf(w) # IdentityOf(v)
        /\ ~ENABLED LockRegionCache(v)

\* The keys of c.data before or after the step, other than v's identity.
OtherKeys(v) == ((DOMAIN regionCache) \cup (DOMAIN regionCache')) \ {IdentityOf(v)}

\* C29: the answer to a validator's DescribeRegions, an output or an error,
\* leaves the entry of every other identity as it was and creates none; a
\* directory returned to a validator is the one of its own identity.
C29_IdentityIsolation ==
    [][\A v \in Validators :
          /\ (rv.pc[v] = "fetching" /\ rv'.pc[v] = "done")
                => \A k \in OtherKeys(v) :
                      /\ k \in DOMAIN regionCache
                      /\ k \in DOMAIN regionCache'
                      /\ regionCache'[k] = regionCache[k]
          /\ (rv'.pc[v] = "done" /\ rv'.ret[v].path \in {"cached", "fetched"})
                => rv'.ret[v].output = DirectoryOf(rv'.session[v].AccessKeyID)]_vars

\* Both identities have an entry, a request for AKIDA has failed, and a
\* validator of AKIDB was answered from the cache with its own directory.
C29_Witness ==
    \E v, w \in Validators :
        /\ DOMAIN regionCache = Identities
        /\ IdentityOf(v) = "AKIDA"
        /\ rv.ret[v].path = "failed"
        /\ IdentityOf(w) = "AKIDB"
        /\ rv.ret[w].path = "cached"
        /\ rv.ret[w].output = RegionsNotOptedIn
        /\ regionCache["AKIDA"].describeRegionsOutput = RegionsOptedIn

---------------------------------------------------------------------------
(* Properties of a failed DescribeRegions *)

\* The identity has a directory stored less than 30 minutes ago.
DirectoryValid(key) ==
    LET entry == RegionDataOf(regionCache, key)
    IN /\ entry.describeRegionsOutput # NoOutput
       /\ now - entry.lastUpdated < awsRegionsCacheExpirationDuration

\* The DescribeRegions request of validator v fails in this step.
FailsNow(v) ==
    rv.pc[v] = "fetching" /\ rv'.pc[v] = "done" /\ rv'.ret[v].path = "failed"

\* C34: when the DescribeRegions request of a call fails, c.data is what
\* it was before the call, the call returns the error and no directory,
\* also when an expired directory of the identity is stored, and the entry
\* of the identity is still not valid; an entry that is not valid stays so
\* until a request stores one, and a call that finds it not valid sends
\* DescribeRegions: the next call of the identity asks the API again.
C34_FailedFetchKeepsCache ==
    [][/\ \A v \in Validators :
             /\ FailsNow(v)
                   => /\ regionCache' = regionCache
                      /\ rv'.ret[v].err # Nil
                      /\ rv'.ret[v].output = NoOutput
                      /\ ~DirectoryValid(IdentityOf(v))'
             /\ (PassesLock(v) /\ ~DirectoryValid(IdentityOf(v)))
                   => /\ rv'.pc[v] = "fetching"
                      /\ rv'.ret[v].path = "sent"
       /\ \A key \in Identities :
             (~DirectoryValid(key) /\ regionCache' = regionCache)
                => ~DirectoryValid(key)']_vars

\* A request failed while an expired directory of the identity was stored:
\* the caller got the error, the expired directory is still in the map, and
\* another call of the same identity is sending the request again.
C34_Witness ==
    \E v, w \in Validators :
        /\ v # w
        /\ IdentityOf(v) = IdentityOf(w)
        /\ rv.ret[v].path = "failed"
        /\ rv.ret[v].output = NoOutput
        /\ HasDirectory(v)
        /\ EntryAge(v) >= awsRegionsCacheExpirationDuration
        /\ rv.pc[w] = "fetching"

---------------------------------------------------------------------------
(* Properties of the session's region *)

\* C35: a call that sends DescribeRegions points its session at us-east-1
\* for the request; when the request has returned, with a directory or with
\* an error, the session's region is the one the call was entered with; a
\* call answered from the cache, or ended by a credentials error, leaves the
\* region as it was throughout.
C35_RegionRestored ==
    [][\A v \in Validators :
          LET entered == RegionFor(IdentityOf(v))
          IN /\ (rv.pc[v] \in {"idle", "done"} /\ rv'.pc[v] \in {"lock", "done"}
                    /\ rv'.ret[v].path \in {"none", "nocreds"})
                   => rv'.session[v].Region = RegionFor(IdentityOf(v)')
             /\ (rv.pc[v] = "lock" /\ rv'.pc[v] = "fetching")
                   => /\ rv.session[v].Region = entered
                      /\ rv'.session[v].Region = "us-east-1"
             /\ (rv.pc[v] = "lock" /\ rv'.pc[v] = "done")
                   => /\ rv'.ret[v].path = "cached"
                      /\ rv.session[v].Region = entered
                      /\ rv'.session[v].Region = entered
             /\ (rv.pc[v] = "fetching" /\ rv'.pc[v] = "done")
                   => /\ rv'.ret[v].path \in {"fetched", "failed"}
                      /\ rv.session[v].Region = "us-east-1"
                      /\ rv'.session[v].Region = entered
             /\ (rv.pc[v] \in {"lock", "fetching"} /\ rv'.pc[v] = rv.pc[v])
                   => rv'.session[v].Region = rv.session[v].Region]_vars

\* One request has failed and one has succeeded, for sessions of different
\* regions: both sessions are back at their regions, neither of which is
\* us-east-1.
C35_Witness ==
    \E v, w \in Validators :
        /\ rv.ret[v].path = "failed"
        /\ rv.session[v].Region = "eu-south-9"
        /\ rv.ret[w].path = "fetched"
        /\ rv.session[w].Region = "ap-future-1"

---------------------------------------------------------------------------
(* Properties of NewValidatedClient *)

\* The listing GetCachedDescribeRegions has for the caller: the stored one
\* while it is valid, otherwise what DescribeRegions answers (no output when
\* it fails).
DirectoryFor(aws) ==
    IF DirectoryValid(aws.AccessKeyID)
    THEN RegionDataOf(regionCache, aws.AccessKeyID).describeRegionsOutput
    ELSE aws.describeRegions

\* The listing has an entry for the region that is not not-opted-in.
ListedAndOptedIn(directory, region) ==
    /\ directory # NoOutput
    /\ \E i \in 1..Len(directory) :
          /\ directory[i].RegionName = region
          /\ directory[i].OptInStatus # "not-opted-in"

\* C36: NewValidatedClient returns a client, and no error, exactly when the
\* session was created and either the resolver knows the region, or it
\* reports an unknown endpoint, the region list could be had (credentials
\* and, without a valid stored listing, DescribeRegions succeed) and the
\* list has the region opted in; in every other case it returns an error
\* and no client.
C36_ClientOnlyForValidatedRegion ==
    [][(rv.ret = Pending /\ rv'.ret # Pending)
          => LET aws == rv.aws
                 region == rv.region
                 local == aws.resolver = "default" /\ region \in SDKRegions
                 unknown == aws.resolver = "default" /\ region \notin SDKRegions
                 validated == /\ aws.credentials = "ok"
                              /\ ListedAndOptedIn(DirectoryFor(aws), region)
                 accepted == aws.session = "ok" /\ (local \/ (unknown /\ validated))
             IN /\ ("client" \in DOMAIN rv'.ret) <=> accepted
                /\ (rv'.ret.err = Nil) <=> accepted
                /\ accepted => rv'.ret.client.region = region]_vars

\* A client was returned for a region the resolver does not know, on the
\* strength of a fetched listing.
C36_Witness ==
    /\ rv.ret # Pending
    /\ rv.region = "ap-future-1"
    /\ rv.aws.resolver = "default"
    /\ rv.ret.err = Nil
    /\ rv.ret.client.region = "ap-future-1"
    /\ rv.ret.describeRegions = 1

---------------------------------------------------------------------------
(* Properties of validateRegion *)

Validated == rv # Pending /\ rv.ret # Pending

\* The entries of the directory that name the region.
EntriesFor(region) ==
    {rv.describeRegionsOutput[i] : i \in
        {j \in 1..Len(rv.describeRegionsOutput) :
            rv.describeRegionsOutput[j].RegionName = region}}

\* C25: validateRegion returns no error exactly when the directory lists the
\* region and does not mark it not-opted-in; a region that is not listed is
\* refused as "not a valid region", a listed region that is not opted in as
\* "not opted in".
C25_MembershipAndOptIn ==
    Validated
        => LET entries == EntriesFor(rv.region)
               optedOut == \E e \in entries : e.OptInStatus = "not-opted-in"
           IN /\ (rv.ret = Nil) <=> (entries # {} /\ ~optedOut)
              /\ entries = {} => rv.ret.what = "is not a valid region"
              /\ (entries # {} /\ optedOut) => rv.ret.what = "is not opted in"

\* The region is listed after another one, and not opted in.
C25_Witness ==
    /\ Validated
    /\ rv.region = "ap-future-1"
    /\ Len(rv.describeRegionsOutput) = 2
    /\ rv.describeRegionsOutput[2] =
          [RegionName |-> "ap-future-1", OptInStatus |-> "not-opted-in"]
    /\ rv.ret.what = "is not opted in"

---------------------------------------------------------------------------
(* Properties of the order of the steps of reconcile *)

StepOrder ==
    <<"ResolveAWSMachineTemplate", "ExtractInstanceType", "ResolveRegion",
      "AwsClientBuilder", "GetInstanceType", "SetAnnotations">>

\* The template the deployment refers to can be fetched.
TemplateFound ==
    /\ ValidTemplateRef
    /\ "AWSMachineTemplate" \notin world.failing
    /\ ReferencedTemplates # {}

\* ... and names an instance type.
TypeNamed == TemplateFound /\ \A t \in ReferencedTemplates : t.InstanceType # ""

\* The AWSCluster or the annotation gives a region.
RegionKnown == ChainRegions # {} \/ HasRegionAnnotation

\* C26: the steps of one reconcile are a prefix of template resolution,
\* instance-type extraction, region resolution, AWS client construction,
\* instance-type lookup, annotation write; the prefix ends at the first step
\* that fails; no AWS call is made and neither cache changes unless the first
\* three steps succeeded, the instance-type cache is not asked when the
\* client could not be built, and the annotations change only after all six.
C26_SequentialShortCircuit ==
    [][Ran'
          => LET r == rec'.reconcile
                 n == Len(r.steps)
             IN /\ n \in 1..Len(StepOrder)
                /\ r.steps = SubSeq(StepOrder, 1, n)
                /\ ~TemplateFound => n = 1
                /\ (TemplateFound /\ ~TypeNamed) => n = 2
                /\ (TypeNamed /\ ~RegionKnown) => n = 3
                /\ n >= 4 => (TypeNamed /\ RegionKnown)
                /\ n < 4 => /\ r.err # Nil
                            /\ r.aws = NoAWSCalls
                            /\ regionCache' = regionCache
                            /\ instanceTypes' = instanceTypes
                /\ n = 4 => /\ r.err # Nil
                            /\ r.lookup = "none"
                            /\ r.aws.describeInstanceTypes = 0
                            /\ instanceTypes' = instanceTypes
                /\ n = 5 => r.lookup \notin {"none", "ok"}
                /\ n < 6 => /\ r.annotations = md.Annotations
                            /\ md'.Annotations = md.Annotations
                /\ n = 6 => (r.err = Nil /\ r.lookup = "ok")]_vars

\* The template names an instance type but no region is found: reconcile
\* stopped after ResolveRegion and AWS was not called.
C26_Witness ==
    /\ Ran
    /\ TypeNamed
    /\ ~RegionKnown
    /\ rec.reconcile.steps = SubSeq(StepOrder, 1, 3)
    /\ rec.reconcile.err # Nil
    /\ rec.reconcile.aws = NoAWSCalls
    /\ DOMAIN regionCache = {}

---------------------------------------------------------------------------
(* Properties of the annotation map after reconcile *)

\* The pieces of a labels annotation.
PiecesOf(labels) == {Split(labels, ",")[i] : i \in 1..Len(Split(labels, ","))}

\* The label value the reconciler gives the architectures a listing names.
ArchitectureOf(info) ==
    IF info.SupportedArchitectures # <<>> /\ info.SupportedArchitectures[1] = "arm64"
    THEN "arm64" ELSE "amd64"

\* The four owned keys of a map all hold the values of the one listing info.
AllFromOne(annotations, info) ==
    /\ OwnedKeys \subseteq DOMAIN annotations
    /\ IsDecimalOf(annotations[cpuKey], info.DefaultVCpus)
    /\ IsDecimalOf(annotations[memoryKey], info.SizeInMiB)
    /\ IsDecimalOf(annotations[gpuKey], SumSeq(info.Gpus))
    /\ (archLabelKey \o "=" \o ArchitectureOf(info)) \in PiecesOf(annotations[labelsKey])

\* The listing infos AWS has ever served for the referenced instance type.
ServedInfos ==
    {info \in UNION {InfosOf(cat) : cat \in Catalogs} :
        \E t \in ReferencedTemplates : t.InstanceType = info.InstanceType}

\* C31: after a call of reconcile the annotation map of the MachineDeployment
\* is the map before the call whenever reconcile returned an error or did
\* not find the instance type, and otherwise differs from it in the four
\* owned keys at most and holds all four with the values of one descriptor.
C31_AllOrNothing ==
    [][Ran'
          => LET r == rec'.reconcile
                 before == md.Annotations
                 after == r.annotations
             IN /\ (r.err # Nil \/ r.lookup # "ok") => after = before
                /\ (r.err = Nil /\ r.lookup = "ok")
                      => /\ \E info \in ServedInfos : AllFromOne(after, info)
                         /\ DOMAIN after = DOMAIN before \cup OwnedKeys
                         /\ \A k \in DOMAIN before \ OwnedKeys : after[k] = before[k]
                /\ \/ after = before
                   \/ \E info \in ServedInfos : AllFromOne(after, info)]_vars

\* A deployment that held a vCPU annotation of "2" and a labels annotation
\* naming arm64 was reconciled against the later listing of a1.2xlarge: all
\* four keys are those of that descriptor.
C31_Witness ==
    /\ Ran
    /\ rec.reconcile.lookup = "ok"
    /\ rec.patch = "ok"
    /\ md.Annotations[cpuKey] = "8"
    /\ md.Annotations[memoryKey] = "32768"
    /\ md.Annotations[gpuKey] = "0"
    /\ md.Annotations[labelsKey] = "kubernetes.io/arch=amd64,zone=b"

---------------------------------------------------------------------------
(* Properties of Reconcile around reconcile *)

\* The Get of the MachineDeployment succeeds and it is not being deleted.
Live ==
    /\ "MachineDeployment" \notin world.failing
    /\ md # Gone
    /\ md.DeletionTimestamp = 0

\* The Get answers not-found, or the MachineDeployment is being deleted.
Skipped ==
    /\ "MachineDeployment" \notin world.failing
    /\ \/ md = Gone
       \/ md.DeletionTimestamp # 0

\* C32: for a MachineDeployment that exists and is not being deleted,
\* Reconcile runs reconcile and then attempts the patch whatever reconcile
\* returned; an error of reconcile adds a ReconcileError event after the
\* events of reconcile; when the patch succeeds Reconcile returns the error
\* of reconcile and the stored annotations are those reconcile left, when
\* the patch fails it returns the patch error.
C32_PatchRegardless ==
    [][(rec' # Pending /\ Live)
          => /\ rec'.reconcile # NotRun
             /\ rec'.patch \in {"ok", "failed"}
             /\ rec'.patch = "failed" <=> "Patch" \in world.failing
             /\ IF rec'.reconcile.err # Nil
                THEN rec'.events = rec'.reconcile.events
                                      \o <<Warning("ReconcileError",
                                                   rec'.reconcile.err.what)>>
                ELSE rec'.events = rec'.reconcile.events
             /\ rec'.patch = "ok"
                   => /\ rec'.err = rec'.reconcile.err
                      /\ md'.Annotations = rec'.reconcile.annotations
             /\ rec'.patch = "failed"
                   => /\ rec'.err = Err("failed to patch machineDeployment", "patch")
                      /\ md' = md]_vars

\* reconcile failed, the ReconcileError event was emitted, the patch was
\* attempted and failed too: Reconcile returned the patch error.
C32_Witness ==
    /\ Ran
    /\ rec.reconcile.err # Nil
    /\ rec.events[Len(rec.events)].reason = "ReconcileError"
    /\ rec.patch = "failed"
    /\ rec.err.what = "failed to patch machineDeployment"
    /\ rec.err # rec.reconcile.err

\* C33: when the MachineDeployment is not found or has a deletion
\* timestamp, Reconcile returns an empty result and no error, reconcile is
\* not run (no lookup of template or region, no AWS call), no event is
\* emitted, no patch is attempted, and the stored object and both caches
\* are what they were.
C33_SkippedDeployments ==
    [][(rec' # Pending /\ Skipped)
          => /\ rec'.err = Nil
             /\ ~rec'.requeue
             /\ rec'.reconcile = NotRun
             /\ rec'.events = <<>>
             /\ rec'.patch = "none"
             /\ md' = md
             /\ instanceTypes' = instanceTypes
             /\ regionCache' = regionCache]_vars

\* Reconcile was called for a MachineDeployment that is not in the store,
\* in a store that holds a template and an AWSCluster with a region.
C33_Witness ==
    /\ rec # Pending
    /\ md = Gone
    /\ "MachineDeployment" \notin world.failing
    /\ \E t \in world.objects : t.Kind = "AWSMachineTemplate" /\ t.InstanceType = "a1.2xlarge"
    /\ \E c \in world.objects : c.Kind = "AWSCluster" /\ c.Region = "us-east-1"
    /\ rec.err = Nil
    /\ rec.reconcile = NotRun

---------------------------------------------------------------------------
(* Properties of the namespaces of the references *)

\* The namespace a reference points into, seen from an object in `own`.
NamespaceOf(ref, own) == IF ref.Namespace = "" THEN own ELSE ref.Namespace

\* The Cluster of the MachineDeployment.
OwnCluster ==
    CHOOSE c \in world.objects :
        c.Kind = "Cluster" /\ c.Name = md.ClusterName /\ c.Namespace = md.Namespace

\* C30: ResolveAWSMachineTemplate returns the template of the namespace the
\* infrastructureRef names, or of the MachineDeployment's namespace when the
\* reference names none, and a not-found error when that namespace has no
\* such template, whatever other namespaces hold; the region is that of the
\* AWSCluster in the namespace the Cluster's infrastructureRef names, or in
\* the Cluster's namespace when it names none.
C30_NamespaceDefaulting ==
    /\ rr.template # Pending
          => LET namespace == NamespaceOf(md.InfrastructureRef, md.Namespace)
             IN IF TemplateIn(namespace) \in world.objects
                THEN /\ rr.template.err = Nil
                     /\ rr.template.template = TemplateIn(namespace)
                ELSE rr.template.err.is = "NotFound"
    /\ rr.region # Pending
          => LET namespace == NamespaceOf(OwnCluster.InfrastructureRef,
                                          OwnCluster.Namespace)
             IN IF AWSClusterIn(namespace) \in world.objects
                THEN /\ rr.region.err = Nil
                     /\ rr.region.region = AWSClusterIn(namespace).Region
                ELSE rr.region.err # Nil

\* A MachineDeployment in infra whose references name no namespace, with a
\* template and an AWSCluster in both namespaces: it got those of infra.
C30_Witness ==
    /\ md.Namespace = "infra"
    /\ md.InfrastructureRef.Namespace = ""
    /\ OwnCluster.InfrastructureRef.Namespace = ""
    /\ {TemplateIn(n) : n \in Namespaces} \subseteq world.objects
    /\ {AWSClusterIn(n) : n \in Namespaces} \subseteq world.objects
    /\ rr.template # Pending
    /\ rr.template.template.InstanceType = "p2.16xlarge"
    /\ rr.region # Pending
    /\ rr.region.region = "eu-west-1"

---------------------------------------------------------------------------
(* Properties of the serialized labels annotation *)

\* The position of the first "=" of an entry, 0 when it has none.
FirstEquals(entry) ==
    IF \E i \in 1..Len(entry) : Char(entry, i) = "="
    THEN CHOOSE i \in 1..Len(entry) :
            /\ Char(entry, i) = "="
            /\ \A j \in 1..(i - 1) : Char(entry, j) # "="
    ELSE 0

KeyIn(entry) == SubSeq(entry, 1, FirstEquals(entry) - 1)

\* The pieces of the original annotation that are pairs with the key.
PiecesWith(key) == {i \in 1..Len(wr.pieces) : wr.pieces[i].pair /\ wr.pieces[i].key = key}

\* The last of them.
LastWith(key) == CHOOSE i \in PiecesWith(key) : \A j \in PiecesWith(key) : j <= i

\* C37: after the annotation step the labels annotation is a comma-joined
\* list of entries that each have an "=", in strictly ascending byte order;
\* no two entries have the same key; the keys are those of the pairs of the
\* original annotation and kubernetes.io/arch; a caller's key carries the
\* value of its last pair; there is exactly one kubernetes.io/arch entry and
\* its value is the architecture of the descriptor; a piece without "=" is
\* not among the entries.
C37_LabelsWellFormed ==
    Written
        => \A list \in {LabelList} :
           \A keys \in {[i \in 1..Len(list) |-> KeyIn(list[i])]} :
           \A entries \in {{list[i] : i \in 1..Len(list)}} :
              /\ \A i \in 1..Len(list) : FirstEquals(list[i]) > 0
              /\ \A i \in 1..(Len(list) - 1) : StringLess(list[i], list[i + 1])
              /\ \A i, j \in 1..Len(list) : i # j => keys[i] # keys[j]
              /\ {keys[i] : i \in 1..Len(list)}
                    = {wr.pieces[i].key : i \in CallerPieces} \cup {archLabelKey}
              /\ \A i \in CallerPieces :
                    LET last == wr.pieces[LastWith(wr.pieces[i].key)]
                    IN (last.key \o "=" \o last.value) \in entries
              /\ Cardinality({i \in 1..Len(list) : keys[i] = archLabelKey}) = 1
              /\ (archLabelKey \o "=" \o ArchitectureOf(wr.info)) \in entries
              /\ \A i \in 1..Len(wr.pieces) :
                    ~wr.pieces[i].pair => wr.pieces[i].text \notin entries

\* The annotation was "kubernetes.io/arch=arm64,zone=a, zone=b ,spot"-like:
\* a stale architecture, the key zone twice and a piece without "=".
C37_Witness ==
    /\ Written
    /\ Len(wr.pieces) = 3
    /\ wr.pieces[1].key = "zone" /\ wr.pieces[1].value = "a"
    /\ wr.pieces[2].key = "zone" /\ wr.pieces[2].value = "b"
    /\ ~wr.pieces[3].pair
    /\ md.Annotations[labelsKey] = "kubernetes.io/arch=amd64,zone=b"

====
